---- MODULE Spec2Model ----
(***************************************************************************)
(* Model of the sadbox template toolchain: the inheritance compiler        *)
(* (zap/parse Compile), the define-set merge operations (Tree.Add,         *)
(* Tree.AddTree, Set.parse, Zapper.addTree) and the recursive-descent      *)
(* parser (template/parse).                                                *)
(***************************************************************************)
EXTENDS Integers, Sequences, FiniteSets, TLC

(***************************************************************************)
(* Parse-tree nodes.  Every node is a record of the same shape; kind is    *)
(* one of "text", "block", "if", "list".  An if/range/with node without an *)
(* {{else}} has hasElse = FALSE, which stands for ElseList == nil.         *)
(***************************************************************************)
TextNode(s) ==
  [kind |-> "text", name |-> "", text |-> s, list |-> <<>>,
   hasElse |-> FALSE, elseList |-> <<>>]

BlockNode(n, l) ==
  [kind |-> "block", name |-> n, text |-> "", list |-> l,
   hasElse |-> FALSE, elseList |-> <<>>]

IfNode(l, e) ==
  [kind |-> "if", name |-> "", text |-> "", list |-> l,
   hasElse |-> TRUE, elseList |-> e]

IfNodeNoElse(l) ==
  [kind |-> "if", name |-> "", text |-> "", list |-> l,
   hasElse |-> FALSE, elseList |-> <<>>]

ListNode(l) ==
  [kind |-> "list", name |-> "", text |-> "", list |-> l,
   hasElse |-> FALSE, elseList |-> <<>>]

\* A DefineNode of the zap package: the parent name ("" when the template
\* extends nothing) and the body.
DefineNode(p, l) == [parent |-> p, list |-> l]

(***************************************************************************)
(* Deep copy (CopyList / Copy / CopyDefine).  A nil ElseList copies to nil.*)
(***************************************************************************)
RECURSIVE CopyList(_)
CopyNode(n) ==
  IF n.kind = "text" THEN TextNode(n.text)
  ELSE IF n.kind = "block" THEN BlockNode(n.name, CopyList(n.list))
  ELSE IF n.kind = "if" THEN
    (IF n.hasElse THEN IfNode(CopyList(n.list), CopyList(n.elseList))
     ELSE IfNodeNoElse(CopyList(n.list)))
  ELSE ListNode(CopyList(n.list))

CopyList(l) == [i \in 1..Len(l) |-> CopyNode(l[i])]

CopyDefine(d) == DefineNode(d.parent, CopyList(d.list))

(***************************************************************************)
(* extractBlocks.  The Go map dst holds one *BlockNode per name; a pointer *)
(* is modelled by the path of the node inside the body (child indices; in  *)
(* an if node 1 selects List and 2 selects ElseList).  A later block of    *)
(* the same name overwrites the earlier entry.  Visiting a nil ElseList    *)
(* dereferences a nil *ListNode: panic.                                    *)
(***************************************************************************)
EmptyBlocks == [panic |-> FALSE, m |-> <<>>]

\* dst[name] = path, replacing an earlier entry of that name.
SetBlock(dst, name, path) ==
  [panic |-> dst.panic,
   m |-> [k \in (DOMAIN dst.m) \cup {name} |->
            IF k = name THEN path ELSE dst.m[k]]]

RECURSIVE extractBlocksList(_, _, _, _)
extractBlocksNode(dst, n, path) ==
  IF dst.panic THEN dst
  ELSE IF n.kind = "block" THEN
    extractBlocksList(SetBlock(dst, n.name, path), n.list, path, 1)
  ELSE IF n.kind = "if" THEN
    LET d1 == extractBlocksList(dst, n.list, path \o <<1>>, 1)
    IN IF d1.panic THEN d1
       ELSE IF ~n.hasElse THEN [panic |-> TRUE, m |-> d1.m]
       ELSE extractBlocksList(d1, n.elseList, path \o <<2>>, 1)
  ELSE IF n.kind = "list" THEN extractBlocksList(dst, n.list, path, 1)
  ELSE dst

extractBlocksList(dst, nodes, path, i) ==
  IF dst.panic \/ i > Len(nodes) THEN dst
  ELSE extractBlocksList(extractBlocksNode(dst, nodes[i], path \o <<i>>),
                         nodes, path, i + 1)

extractBlocks(nodes) == extractBlocksList(EmptyBlocks, nodes, <<>>, 1)

\* The node a path of extractBlocks points to.
RECURSIVE NodeAt(_, _)
NodeAt(nodes, path) ==
  LET n == nodes[path[1]]
  IN IF Len(path) = 1 THEN n
     ELSE IF n.kind = "if" THEN
       NodeAt(IF path[2] = 1 THEN n.list ELSE n.elseList, Tail(Tail(path)))
     ELSE NodeAt(n.list, Tail(path))

(***************************************************************************)
(* inlineParent: the loop "for k, v := range dst { if block := src[k];     *)
(* block != nil { v.List = block.List } }" on the copy of the parent.  Each *)
(* v is one node of the copy, so the assignments are independent of the    *)
(* iteration order; a block that lies inside a replaced block is detached. *)
(***************************************************************************)
RECURSIVE AssignLists(_, _, _, _, _)
AssignNode(n, path, dst, src, srcBody) ==
  IF n.kind = "block" THEN
    IF n.name \in DOMAIN dst /\ dst[n.name] = path /\ n.name \in DOMAIN src
    THEN BlockNode(n.name, NodeAt(srcBody, src[n.name]).list)
    ELSE BlockNode(n.name, AssignLists(n.list, path, dst, src, srcBody))
  ELSE IF n.kind = "if" THEN
    IF n.hasElse
    THEN IfNode(AssignLists(n.list, path \o <<1>>, dst, src, srcBody),
                AssignLists(n.elseList, path \o <<2>>, dst, src, srcBody))
    ELSE IfNodeNoElse(AssignLists(n.list, path \o <<1>>, dst, src, srcBody))
  ELSE IF n.kind = "list" THEN
    ListNode(AssignLists(n.list, path, dst, src, srcBody))
  ELSE n

AssignLists(nodes, path, dst, src, srcBody) ==
  [i \in 1..Len(nodes) |-> AssignNode(nodes[i], path \o <<i>>, dst, src, srcBody)]

\* An inlineParent that keeps the blocks of the template that match no
\* block of the parent, after the body of the parent.
inlineParentKeeping(ts, name) ==
  LET define == ts[name]
  IN IF define.parent \notin DOMAIN ts
     THEN [panic |-> "nil dereference", ts |-> ts]
     ELSE
       LET parent == CopyDefine(ts[define.parent])
           src == extractBlocks(define.list)
           dst == extractBlocks(parent.list)
       IN IF src.panic \/ dst.panic
          THEN [panic |-> "nil ElseList", ts |-> ts]
          ELSE [panic |-> "",
                ts |-> [ts EXCEPT ![name] =
                  DefineNode(parent.parent,
                    AssignLists(parent.list, <<>>, dst.m, src.m, define.list)
                    \o SelectSeq(define.list,
                                 LAMBDA n : n.kind = "block"
                                            /\ n.name \notin DOMAIN dst.m))]]

\* Outcome of inlineParent(treeSet, name): the new treeSet, or a panic.
inlineParent(ts, name) ==
  LET define == ts[name]
  IN IF define.parent \notin DOMAIN ts
     THEN [panic |-> "nil dereference", ts |-> ts]
     ELSE
       LET parent == CopyDefine(ts[define.parent])
           src == extractBlocks(define.list)
           dst == extractBlocks(parent.list)
       IN IF src.panic \/ dst.panic
          THEN [panic |-> "nil ElseList", ts |-> ts]
          ELSE [panic |-> "",
                ts |-> [ts EXCEPT ![name] =
                  DefineNode(parent.parent,
                    AssignLists(parent.list, <<>>, dst.m, src.m, define.list))]]

(***************************************************************************)
(* inlineBlocks on a list: every block element is replaced by its List     *)
(* (a ListNode), which is inlined in turn; if/range/with nodes are entered *)
(* through List and ElseList, and a nil ElseList panics.                   *)
(***************************************************************************)
RECURSIVE inlineBlocksList(_)
\* An inlining that does not enter the content of a block.
inlineBlocksNodeShallow(n) ==
  IF n.kind = "block" THEN [panic |-> FALSE, n |-> ListNode(n.list)]
  ELSE IF n.kind = "if" THEN
    LET r1 == inlineBlocksList(n.list)
    IN IF r1.panic \/ ~n.hasElse THEN [panic |-> TRUE, n |-> n]
       ELSE LET r2 == inlineBlocksList(n.elseList)
            IN [panic |-> r2.panic, n |-> IfNode(r1.l, r2.l)]
  ELSE [panic |-> FALSE, n |-> n]

inlineBlocksNode(n) ==
  IF n.kind = "block" THEN
    LET r == inlineBlocksList(n.list)
    IN [panic |-> r.panic, n |-> ListNode(r.l)]
  ELSE IF n.kind = "if" THEN
    LET r1 == inlineBlocksList(n.list)
    IN IF r1.panic \/ ~n.hasElse THEN [panic |-> TRUE, n |-> n]
       ELSE LET r2 == inlineBlocksList(n.elseList)
            IN [panic |-> r2.panic, n |-> IfNode(r1.l, r2.l)]
  ELSE IF n.kind = "list" THEN
    LET r == inlineBlocksList(n.list)
    IN [panic |-> r.panic, n |-> ListNode(r.l)]
  ELSE [panic |-> FALSE, n |-> n]

inlineBlocksList(nodes) ==
  LET rs == [i \in 1..Len(nodes) |-> inlineBlocksNode(nodes[i])]
  IN [panic |-> \E i \in 1..Len(nodes) : rs[i].panic,
      l |-> [i \in 1..Len(nodes) |-> rs[i].n]]

inlineBlocks(nodes) == inlineBlocksList(nodes)

(***************************************************************************)
(* Compile as a state machine.  The range over the map treeSet visits the  *)
(* keys in an order the Go runtime chooses: todo1 and todo2 hold the keys  *)
(* the first and the second loop have not visited yet.                     *)
(***************************************************************************)
VARIABLES
  treeSet,   \* the define set, mutated in place
  treeSet0,  \* the define set as it was when Compile was called
  cpc,       \* position in Compile
  todo1,     \* keys the inlining loop has still to visit
  todo2,     \* keys the inlineBlocks loop has still to visit
  name,      \* inlineParentList: the template the walk is at
  deps,      \* inlineParentList: the names met so far
  names,     \* Compile: the names still to inline for the visited template
  result,    \* what Compile returned, "running" until then
  steps,     \* the number of steps Compile has taken
  \* Merging definitions into a define set.
  tree,      \* Set.Tree: name -> definition
  ztree,     \* Zapper.tree: name -> definition
  hist,      \* the definitions Tree.Add was called with on Set.Tree, in order
  zhist,     \* the definitions Zapper.addTree visited, in order
  mop,       \* the last merge call
  msrc,      \* the definitions of the source the last Parse call was given
  tried,     \* the definitions the last call visited, in order
  before,    \* the define set the last call worked on, as it was before
  mres,      \* what the last call returned
  ncalls,    \* the number of calls made
  sfuncs,    \* the names of the functions of the Set (parseFuncs, execFuncs)
  \* Parsing one source.
  text,      \* the source, chunk by chunk
  input,     \* the tokens the lexer produces before its terminal token
  lexEnd,    \* the terminal token: "EOF" or "Error", repeated on every request
  pos,       \* the number of tokens the parser has consumed
  ptree,     \* parser.tree: name -> body of the definition
  skipped,   \* the tokens the top-level loop has passed over
  pres,      \* what Parse returned, "running" until then
  pvars,     \* parser.vars: the variables defined at the moment
  funcs,     \* parser.funcs: the function maps Parse was given
  parsed,    \* the tree whose String() is the source being parsed, if any
  \* Lexing one input with the queue-based lexer.
  lexer,     \* the lexer: input, pin, pos, width, state and queue
  returned,  \* the tokens next() has returned, in order
  \* Scanning one source with the Scanner.
  scanner,   \* the Scanner: src, pin, pos, width, state, stack, braces and
             \* its tokens channel (the tokens to send, whether it is closed)
  delivered, \* the tokens NextToken has returned, in order, and from where
  \* Escaping text nodes, cloning a Set, evaluating a plural expression.
  escaper,   \* the text node escapeText is given and what it returned
  cloned,    \* the Set that Set.Clone returned, and the calls made on it
  plural,    \* the plural expression, its PluralFunc and the last result
  \* The token queue of the lexer.
  queue,     \* the queue: tokens, head, tail and count
  qhist      \* how many tokens were pushed, and the tokens popped, in order

compileVars ==
  <<treeSet, treeSet0, cpc, todo1, todo2, name, deps, names, result, steps>>

mergeVars ==
  <<tree, ztree, hist, zhist, mop, msrc, tried, before, mres, ncalls, sfuncs>>

parseVars ==
  <<text, input, lexEnd, pos, ptree, skipped, pres, pvars, funcs, parsed>>

queueVars == <<lexer, returned>>

scanVars == <<scanner, delivered>>

moreVars == <<escaper, cloned, plural, queue, qhist>>

lexVars == <<queueVars, scanVars, moreVars>>

\* The merge and the parser variables while neither is in use.
MergeIdle ==
  /\ tree = <<>>
  /\ ztree = <<>>
  /\ hist = <<>>
  /\ zhist = <<>>
  /\ mop = ""
  /\ msrc = <<>>
  /\ tried = <<>>
  /\ before = <<>>
  /\ mres = ""
  /\ ncalls = 0
  /\ sfuncs = {}

QueueIdle ==
  /\ lexer = [input |-> <<>>, pin |-> 0, pos |-> 0, width |-> 0,
              state |-> "idle", queue |-> <<>>]
  /\ returned = <<>>

ScanIdle ==
  /\ scanner = [src |-> <<>>, pin |-> 0, pos |-> 0, width |-> 0,
                state |-> "idle", sending |-> <<>>, closed |-> FALSE,
                stack |-> <<>>, braces |-> <<>>]
  /\ delivered = <<>>

EscaperIdle == escaper = [state |-> "idle"]

CloneIdle == cloned = [state |-> "idle"]

PluralIdle == plural = [state |-> "idle"]

FifoIdle == queue = <<>> /\ qhist = [state |-> "idle"]

MoreIdle == EscaperIdle /\ CloneIdle /\ PluralIdle /\ FifoIdle

LexIdle == QueueIdle /\ ScanIdle /\ MoreIdle

\* No tree was printed.
NotPrinted == [done |-> FALSE, tree |-> <<>>]

ParseIdle ==
  /\ text = <<>>
  /\ input = <<>>
  /\ lexEnd = "EOF"
  /\ pos = 0
  /\ ptree = <<>>
  /\ skipped = <<>>
  /\ pres = "idle"
  /\ pvars = <<>>
  /\ funcs = <<>>
  /\ parsed = NotPrinted

\* Bound on the length of deps; the walk never reaches it.
MaxDeps == 5

\* Template names of the generated define sets, and a name that is no key.
TemplateNames == {"t1", "t2", "t3"}
MissingName == "zz"

\* Bodies of the generated define sets.
BodyT1 == <<TextNode("foo-"), BlockNode("b1", <<TextNode("t1b1-")>>), TextNode("bar")>>
BodyT2 == <<BlockNode("b1", <<TextNode("t2b1-"), BlockNode("b2", <<TextNode("t2b2-")>>)>>)>>
BodyT3 == <<BlockNode("b2", <<TextNode("t3b2-")>>)>>
BodyT4 == <<BlockNode("b2", <<TextNode("t4b2-")>>)>>
BodyBranch ==
  <<BlockNode("b1", <<TextNode("x")>>),
    IfNode(<<BlockNode("b2", <<TextNode("y")>>)>>, <<TextNode("n")>>)>>
BodyNoElse == <<IfNodeNoElse(<<BlockNode("b1", <<TextNode("i")>>)>>)>>

Bodies == {BodyT1, BodyT2, BodyT3, BodyBranch, BodyNoElse}

\* The define set of TestBlock.
Fixture ==
  [n \in {"t1", "t2", "t3", "t4"} |->
     IF n = "t1" THEN DefineNode("", BodyT1)
     ELSE IF n = "t2" THEN DefineNode("t1", BodyT2)
     ELSE IF n = "t3" THEN DefineNode("t2", BodyT3)
     ELSE DefineNode("t2", BodyT4)]

DefineSets ==
  {Fixture} \cup
  [TemplateNames -> [parent : TemplateNames \cup {"", MissingName}, list : Bodies]]

InitCompile ==
  /\ treeSet0 \in DefineSets
  /\ treeSet = treeSet0
  /\ cpc = "loop1"
  /\ todo1 = DOMAIN treeSet0
  /\ todo2 = {}
  /\ name = ""
  /\ deps = <<>>
  /\ names = <<>>
  /\ result = "running"
  /\ steps = 0
  /\ MergeIdle
  /\ ParseIdle
  /\ LexIdle

\* for name, _ := range treeSet { names, err := inlineParentList(treeSet, name)
Loop1Visit ==
  /\ cpc = "loop1"
  /\ steps' = steps + 1
  /\ UNCHANGED <<mergeVars, parseVars, lexVars>>
  /\ \E n \in todo1 :
       /\ todo1' = todo1 \ {n}
       /\ name' = n
  /\ deps' = <<>>
  /\ cpc' = "walk"
  /\ UNCHANGED <<treeSet, treeSet0, todo2, names, result>>

\* The first loop has visited every key: the second loop starts.
Loop1Done ==
  /\ cpc = "loop1"
  /\ steps' = steps + 1
  /\ UNCHANGED <<mergeVars, parseVars, lexVars>>
  /\ todo1 = {}
  /\ cpc' = "loop2"
  /\ todo2' = DOMAIN treeSet
  /\ UNCHANGED <<treeSet, treeSet0, todo1, name, deps, names, result>>

\* A walk that recognises no name of deps.
InDepsNever(d, n) == FALSE

\* v == name for some v of deps.
InDeps(d, n) == \E i \in 1..Len(d) : d[i] = n

\* A walk that takes a missing entry for the end of the chain.
WalkNotFoundIgnored ==
  /\ cpc = "walk"
  /\ steps' = steps + 1
  /\ UNCHANGED <<mergeVars, parseVars, lexVars>>
  /\ name \notin DOMAIN treeSet
  /\ names' = deps
  /\ cpc' = "inline"
  /\ UNCHANGED <<treeSet, treeSet0, todo1, todo2, name, deps, result>>

\* One iteration of the for loop of inlineParentList.
WalkNotFound ==
  /\ cpc = "walk"
  /\ steps' = steps + 1
  /\ UNCHANGED <<mergeVars, parseVars, lexVars>>
  /\ name \notin DOMAIN treeSet
  /\ result' = "template not found"
  /\ cpc' = "done"
  /\ UNCHANGED <<treeSet, treeSet0, todo1, todo2, name, deps, names>>

WalkBreak ==
  /\ cpc = "walk"
  /\ steps' = steps + 1
  /\ UNCHANGED <<mergeVars, parseVars, lexVars>>
  /\ name \in DOMAIN treeSet
  /\ treeSet[name].parent = ""
  /\ names' = deps
  /\ cpc' = "inline"
  /\ UNCHANGED <<treeSet, treeSet0, todo1, todo2, name, deps, result>>

WalkRecursion ==
  /\ cpc = "walk"
  /\ steps' = steps + 1
  /\ UNCHANGED <<mergeVars, parseVars, lexVars>>
  /\ name \in DOMAIN treeSet
  /\ treeSet[name].parent # ""
  /\ InDeps(deps, name)
  /\ result' = "impossible recursion"
  /\ cpc' = "done"
  /\ UNCHANGED <<treeSet, treeSet0, todo1, todo2, name, deps, names>>

WalkStep ==
  /\ cpc = "walk"
  /\ steps' = steps + 1
  /\ UNCHANGED <<mergeVars, parseVars, lexVars>>
  /\ name \in DOMAIN treeSet
  /\ treeSet[name].parent # ""
  /\ ~InDeps(deps, name)
  /\ Len(deps) < MaxDeps
  /\ deps' = Append(deps, name)
  /\ name' = treeSet[name].parent
  /\ UNCHANGED <<treeSet, treeSet0, cpc, todo1, todo2, names, result>>

\* for len(names) > 0 { inlineParent(treeSet, names[len(names)-1]); ... }
InlineStep ==
  /\ cpc = "inline"
  /\ steps' = steps + 1
  /\ UNCHANGED <<mergeVars, parseVars, lexVars>>
  /\ Len(names) > 0
  /\ LET r == inlineParent(treeSet, names[Len(names)])
     IN IF r.panic # ""
        THEN /\ result' = "panic: " \o r.panic
             /\ cpc' = "done"
             /\ UNCHANGED <<treeSet, names>>
        ELSE /\ treeSet' = r.ts
             /\ names' = SubSeq(names, 1, Len(names) - 1)
             /\ UNCHANGED <<cpc, result>>
  /\ UNCHANGED <<treeSet0, todo1, todo2, name, deps>>

InlineDone ==
  /\ cpc = "inline"
  /\ steps' = steps + 1
  /\ UNCHANGED <<mergeVars, parseVars, lexVars>>
  /\ Len(names) = 0
  /\ cpc' = "loop1"
  /\ UNCHANGED <<treeSet, treeSet0, todo1, todo2, name, deps, names, result>>

\* for _, v := range treeSet { if err := inlineBlocks(v.Root.List); ... }
Loop2Visit ==
  /\ cpc = "loop2"
  /\ steps' = steps + 1
  /\ UNCHANGED <<mergeVars, parseVars, lexVars>>
  /\ \E n \in todo2 :
       /\ todo2' = todo2 \ {n}
       /\ LET r == inlineBlocks(treeSet[n].list)
          IN IF r.panic
             THEN /\ result' = "panic: nil ElseList"
                  /\ cpc' = "done"
                  /\ UNCHANGED treeSet
             ELSE /\ treeSet' = [treeSet EXCEPT ![n].list = r.l]
                  /\ UNCHANGED <<cpc, result>>
  /\ UNCHANGED <<treeSet0, todo1, name, deps, names>>

\* return nil
Loop2Done ==
  /\ cpc = "loop2"
  /\ steps' = steps + 1
  /\ UNCHANGED <<mergeVars, parseVars, lexVars>>
  /\ todo2 = {}
  /\ result' = "nil"
  /\ cpc' = "done"
  /\ UNCHANGED <<treeSet, treeSet0, todo1, todo2, name, deps, names>>

NextCompile ==
  \/ Loop1Visit
  \/ Loop1Done
  \/ WalkNotFound
  \/ WalkBreak
  \/ WalkRecursion
  \/ WalkStep
  \/ InlineStep
  \/ InlineDone
  \/ Loop2Visit
  \/ Loop2Done

vars == <<compileVars, mergeVars, parseVars, lexVars>>

Init == InitCompile

Next == NextCompile

Spec == Init /\ [][Next]_vars


(***************************************************************************)
(* Merging definitions into a define set: Tree.Add, Tree.AddTree,          *)
(* Set.parse and Zapper.addTree.  A definition is a record of its name,    *)
(* its body and whether its tree is empty.                                 *)
(***************************************************************************)
\* Bound on the number of merge calls, and on the definitions of one source.
MaxCalls == 3
MaxSourceDefs == 2

MergeNames == {"a", "b"}
MergeBodies == {"x", "y"}

\* The definitions calls are made with; those with a body that is not empty.
AllDefs == [name : MergeNames, body : MergeBodies, empty : BOOLEAN]
FullDefs == {d \in AllDefs : ~d.empty}

\* The maps name -> definition over a set of definitions.
TreesOf(defs) ==
  UNION {{t \in [S -> defs] : \A n \in S : t[n].name = n} : S \in SUBSET MergeNames}

\* The orders in which a range over the keys S can visit them.
Orders(S) ==
  {o \in [1..Cardinality(S) -> S] : \A i, j \in DOMAIN o : i # j => o[i] # o[j]}

\* The sources: the definitions of a source string in the order they stand.
SourcesOf(defs) == UNION {[1..k -> defs] : k \in 0..MaxSourceDefs}

\* t[node.Name] = node
Put(t, node) ==
  [n \in (DOMAIN t) \cup {node.name} |-> IF n = node.name THEN node ELSE t[n]]

\* An Add that stores the node whether or not the name is present.
AddReplacing(t, node) == [tree |-> Put(t, node), err |-> "nil"]

\* Tree.Add
Add(t, node) ==
  IF node.name \in DOMAIN t
  THEN [tree |-> t, err |-> "duplicated template"]
  ELSE [tree |-> Put(t, node), err |-> "nil"]

\* Tree.AddTree, the range visiting the keys of t2 in the order o from i on.
RECURSIVE AddTree(_, _, _, _, _)
AddTree(t, t2, o, i, seen) ==
  IF i > Len(o) THEN [tree |-> t, err |-> "nil", tried |-> seen]
  ELSE LET r == Add(t, t2[o[i]])
       IN IF r.err # "nil"
          THEN [tree |-> r.tree, err |-> r.err, tried |-> Append(seen, t2[o[i]])]
          ELSE AddTree(r.tree, t2, o, i + 1, Append(seen, t2[o[i]]))

\* The loop of parser.parse on a source: every definition is added to the
\* parser's tree in turn, and the first error ends the parse.
RECURSIVE ParseDefs(_, _, _)
ParseDefs(t, src, i) ==
  IF i > Len(src) THEN [tree |-> t, err |-> "nil"]
  ELSE LET r == Add(t, src[i])
       IN IF r.err # "nil" THEN r ELSE ParseDefs(r.tree, src, i + 1)

\* parse.IsEmptyTree
IsEmptyTree(d) == d.empty

\* Zapper.addTree, the range visiting the keys of t in the order o from i on.
RECURSIVE addTree(_, _, _, _, _)
addTree(z, t, o, i, seen) ==
  IF i > Len(o) THEN [tree |-> z, err |-> "nil", tried |-> seen]
  ELSE LET v == t[o[i]]
       IN IF IsEmptyTree(v) THEN addTree(z, t, o, i + 1, Append(seen, v))
          ELSE IF o[i] \in DOMAIN z
          THEN [tree |-> z, err |-> "duplicated template", tried |-> Append(seen, v)]
          ELSE addTree(Put(z, v), t, o, i + 1, Append(seen, v))

InitMerge ==
  /\ MergeIdle
  /\ ParseIdle
  /\ LexIdle
  /\ treeSet = <<>>
  /\ treeSet0 = <<>>
  /\ cpc = "idle"
  /\ todo1 = {}
  /\ todo2 = {}
  /\ name = ""
  /\ deps = <<>>
  /\ names = <<>>
  /\ result = ""
  /\ steps = 0

\* s.Tree.Add(node)
TreeAdd ==
  /\ ncalls < MaxCalls
  /\ \E node \in FullDefs :
       LET r == Add(tree, node)
       IN /\ tree' = r.tree
          /\ mres' = r.err
          /\ hist' = Append(hist, node)
          /\ tried' = <<node>>
  /\ mop' = "Add"
  /\ msrc' = <<>>
  /\ before' = tree
  /\ ncalls' = ncalls + 1
  /\ UNCHANGED sfuncs
  /\ UNCHANGED <<ztree, zhist>>
  /\ UNCHANGED <<compileVars, parseVars, lexVars>>

\* s.Tree.AddTree(t2)
TreeAddTree ==
  /\ ncalls < MaxCalls
  /\ \E t2 \in TreesOf(FullDefs) : \E o \in Orders(DOMAIN t2) :
       LET r == AddTree(tree, t2, o, 1, <<>>)
       IN /\ tree' = r.tree
          /\ mres' = r.err
          /\ hist' = hist \o r.tried
          /\ tried' = r.tried
  /\ mop' = "AddTree"
  /\ msrc' = <<>>
  /\ before' = tree
  /\ ncalls' = ncalls + 1
  /\ UNCHANGED sfuncs
  /\ UNCHANGED <<ztree, zhist>>
  /\ UNCHANGED <<compileVars, parseVars, lexVars>>

\* Set.parse: parse.Parse(text, ...), then s.Tree.AddTree(tree).
SetParse ==
  /\ ncalls < MaxCalls
  /\ \E src \in SourcesOf(FullDefs) :
       LET p == ParseDefs(<<>>, src, 1)
       IN /\ msrc' = src
          /\ IF p.err # "nil"
             THEN /\ mres' = p.err
                  /\ tried' = <<>>
                  /\ UNCHANGED <<tree, hist>>
             ELSE \E o \in Orders(DOMAIN p.tree) :
                    LET r == AddTree(tree, p.tree, o, 1, <<>>)
                    IN /\ tree' = r.tree
                       /\ mres' = r.err
                       /\ hist' = hist \o r.tried
                       /\ tried' = r.tried
  /\ mop' = "Parse"
  /\ before' = tree
  /\ ncalls' = ncalls + 1
  /\ UNCHANGED sfuncs
  /\ UNCHANGED <<ztree, zhist>>
  /\ UNCHANGED <<compileVars, parseVars, lexVars>>

\* z.addTree(t)
ZapperAddTree ==
  /\ ncalls < MaxCalls
  /\ \E t \in TreesOf(AllDefs) : \E o \in Orders(DOMAIN t) :
       LET r == addTree(ztree, t, o, 1, <<>>)
       IN /\ ztree' = r.tree
          /\ mres' = r.err
          /\ zhist' = zhist \o r.tried
          /\ tried' = r.tried
  /\ mop' = "addTree"
  /\ msrc' = <<>>
  /\ before' = ztree
  /\ ncalls' = ncalls + 1
  /\ UNCHANGED sfuncs
  /\ UNCHANGED <<tree, hist>>
  /\ UNCHANGED <<compileVars, parseVars, lexVars>>

NextMerge ==
  \/ TreeAdd
  \/ TreeAddTree
  \/ SetParse
  \/ ZapperAddTree

SpecMerge == InitMerge /\ [][NextMerge]_vars

\* Contextual escaping of the templates of a Set.  The escaper is told by
\* what it does to a body: the body x is rewritten with the escaping
\* functions in its pipelines, the body y ends outside the text context and
\* is refused.
Escapable(b) == b = "x"
EscapeBody(b) == IF b = "x" THEN "x escaped" ELSE b
EscapeFuncMap == {"html escaper", "js escaper", "url escaper"}

\* An EscapeTree that hands back what it has rewritten so far when a
\* template is refused.
RECURSIVE EscapeTreeKeeps(_, _, _)
EscapeTreeKeeps(t, o, i) ==
  IF i > Len(o) THEN [tree |-> t, err |-> "nil"]
  ELSE IF ~Escapable(t[o[i]].body) THEN [tree |-> t, err |-> "escape error"]
  ELSE EscapeTreeKeeps(Put(t, [t[o[i]] EXCEPT !.body = EscapeBody(@)]), o, i + 1)

\* escape.EscapeTree, the templates being visited in the order o from i on:
\* the tree with every template rewritten, or an error and a tree with all
\* templates removed.
RECURSIVE EscapeTree(_, _, _)
EscapeTree(t, o, i) ==
  IF i > Len(o) THEN [tree |-> t, err |-> "nil"]
  ELSE IF ~Escapable(t[o[i]].body) THEN [tree |-> <<>>, err |-> "escape error"]
  ELSE EscapeTree(Put(t, [t[o[i]] EXCEPT !.body = EscapeBody(@)]), o, i + 1)

\* Set.Escape: s.Tree, err = escape.EscapeTree(s.Tree); s.Funcs(escape.FuncMap)
SetEscape ==
  /\ ncalls < MaxCalls
  /\ \E o \in Orders(DOMAIN tree) :
       LET r == EscapeTree(tree, o, 1)
       IN /\ tree' = r.tree
          /\ mres' = r.err
  /\ sfuncs' = sfuncs \cup EscapeFuncMap
  /\ mop' = "Escape"
  /\ msrc' = <<>>
  /\ tried' = <<>>
  /\ before' = tree
  /\ ncalls' = ncalls + 1
  /\ UNCHANGED <<ztree, hist, zhist>>
  /\ UNCHANGED <<compileVars, parseVars, lexVars>>

NextEscape == SetParse \/ SetEscape

SpecEscape == InitMerge /\ [][NextEscape]_vars

(***************************************************************************)
(* The parser of template/parse.  The lexer hands out the tokens of input  *)
(* and then its terminal token, EOF or Error, on every further request.    *)
(* A source is a sequence of chunks, each the tokens of one action or of   *)
(* one run of text.                                                        *)
(***************************************************************************)
\* Bound on the chunks of a source, and on the tokens the top-level loop
\* requests after the terminal token was handed out first.
MaxChunks == 6
MaxPast == 2

Chunks == {"DEF", "FILL", "BLOCK", "IF", "ELSE", "END", "ACT", "TEXT", "SPACE"}

\* The chunks of the sources that declare and use variables: {{if $x := .}},
\* {{$x := .}}, {{$x}}, {{$}} and a second definition, {{define "b"}}.
VarChunks == {"DEF", "DEFB", "IF", "IFX", "ELSE", "END", "DECLX", "USEX", "USE$"}

ChunkTokens(c) ==
  CASE c = "DEF"   -> <<"Left", "Define", "String", "Right">>
    [] c = "FILL"  -> <<"Left", "Fill", "String", "Right">>
    [] c = "BLOCK" -> <<"Left", "Block", "String", "Right">>
    [] c = "IF"    -> <<"Left", "If", "Dot", "Right">>
    [] c = "WITH"  -> <<"Left", "With", "Dot", "Right">>
    [] c = "RANGE" -> <<"Left", "Range", "Dot", "Right">>
    [] c = "ELSE"  -> <<"Left", "Else", "Right">>
    [] c = "END"   -> <<"Left", "End", "Right">>
    [] c = "ACT"   -> <<"Left", "Dot", "Right">>
    [] c = "TEXT"  -> <<"Text">>
    [] c = "SPACE" -> <<"Space">>
    [] c = "QUOTES" -> <<"Quotes">>
    [] c = "QTEXT" -> <<"QText">>
    [] c = "QSPACE" -> <<"QSpace">>
    [] c = "QQUOTES" -> <<"QQuotes">>
    [] c = "DEFB"  -> <<"Left", "Define", "StringB", "Right">>
    [] c = "IFX"   -> <<"Left", "If", "$x", ":=", "Dot", "Right">>
    [] c = "DECLX" -> <<"Left", "$x", ":=", "Dot", "Right">>
    [] c = "BLOCKX" -> <<"Left", "Block", "String", "$x", ":=", "Dot", "Right">>
    [] c = "FILLX" -> <<"Left", "Fill", "String", "$x", ":=", "Dot", "Right">>
    [] c = "USEX"  -> <<"Left", "$x", "Right">>
    [] c = "USE$"  -> <<"Left", "$", "Right">>
    [] c = "CALLF" -> <<"Left", "f", "Right">>
    [] c = "CALLG" -> <<"Left", "g", "Dot", "Right">>

\* The i-th token the lexer hands out.
Tok(i) == IF i <= Len(input) THEN input[i] ELSE lexEnd

\* strconv's %q of a text: in double quotes, with a backslash before a
\* quote and before a backslash, and \n for a newline.
RECURSIVE Escaped(_)
Escaped(s) ==
  IF s = <<>> THEN <<>>
  ELSE (IF Head(s) \in {"\"", "\\"} THEN <<"\\", Head(s)>>
        ELSE IF Head(s) = "\n" THEN <<"\\", "n">>
        ELSE <<Head(s)>>) \o Escaped(Tail(s))
Quote(s) == <<"\"">> \o Escaped(s) \o <<"\"">>

\* The text tokens of a source and the text of each: x, a space, the three
\* characters quote, backslash and newline, and each of the three as %q
\* writes it.
PlainTextTokens == {"Text", "Space", "Quotes"}
TextTokens == PlainTextTokens \cup {"QText", "QSpace", "QQuotes"}
TextOf(t) ==
  CASE t = "Text" -> <<"x">>
    [] t = "Space" -> <<" ">>
    [] t = "Quotes" -> <<"\"", "\\", "\n">>
    [] t = "QText" -> Quote(<<"x">>)
    [] t = "QSpace" -> Quote(<<" ">>)
    [] t = "QQuotes" -> Quote(<<"\"", "\\", "\n">>)

\* The strings of a source: "a" and "b".
StringTokens == {"String", "StringB"}
Unquote(t) == IF t = "String" THEN "a" ELSE "b"

\* The variables and the identifiers of a source.
VariableTokens == {"$", "$x"}
IdentifierTokens == {"f", "g"}

\* The other tokens that start a command.
Operands == {"Dot"} \cup StringTokens

\* A function map: whether it is nil, and the value under each of its keys,
\* "fn" for a function and "nil" for a nil interface value.
FuncMap(isNil, fns) == [isNil |-> isNil, fns |-> fns]

FillNode(n, l) ==
  [kind |-> "fill", name |-> n, text |-> "", list |-> l,
   hasElse |-> FALSE, elseList |-> <<>>]

\* An action, {{end}} or {{else}} node.
MarkNode(k) ==
  [kind |-> k, name |-> "", text |-> "", list |-> <<>>,
   hasElse |-> FALSE, elseList |-> <<>>]

\* The panic value of a nil dereference, a runtime.Error.
RuntimeError == "runtime error: invalid memory address or nil pointer dereference"

\* p.errorf at token pos.
Errorf(at, msg) == [pos |-> at, err |-> msg]

\* A parsing function that went wrong ends the functions that called it;
\* one that went well hands its result to what follows.
Bind(r, K(_)) == IF r.err # "" THEN r ELSE K(r)

\* The first of two verdicts that is not "".
FirstFault(v, w) == IF v # "" THEN v ELSE w

\* bytes.TrimSpace, over the characters in use.
RECURSIVE TrimSpace(_)
TrimSpace(s) ==
  IF s = <<>> THEN s
  ELSE IF Head(s) \in {" ", "\t", "\n", "\r"} THEN TrimSpace(Tail(s))
  ELSE IF s[Len(s)] \in {" ", "\t", "\n", "\r"} THEN TrimSpace(SubSeq(s, 1, Len(s) - 1))
  ELSE s

\* FillNode.validate and FillNode.isValid: "" when the list is valid, the
\* error a fill raises on an invalid node, or the runtime error of ranging
\* over the Nodes of a nil ElseList.
RECURSIVE validate(_)
isValid(n) ==
  IF n.kind = "block" THEN ""
  ELSE IF n.kind = "list" THEN validate(n.list)
  ELSE IF n.kind \in {"if", "with", "range"} THEN
    FirstFault(validate(n.list),
               IF ~n.hasElse THEN RuntimeError ELSE validate(n.elseList))
  ELSE IF n.kind = "text" THEN
    (IF TrimSpace(n.text) = <<>> THEN "" ELSE "invalid action inside <fill>")
  ELSE "invalid action inside <fill>"

validate(nodes) ==
  IF nodes = <<>> THEN ""
  ELSE FirstFault(isValid(Head(nodes)), validate(Tail(nodes)))

\* A hasFunction that looks for the key only.
hasFunctionKey(fs, id) ==
  \E k \in 1..Len(fs) : ~fs[k].isNil /\ id \in DOMAIN fs[k].fns

\* parser.hasFunction: some map of fs that is not nil holds a value that is
\* not nil under the identifier.
hasFunction(fs, id) ==
  \E k \in 1..Len(fs) :
    /\ ~fs[k].isNil
    /\ id \in DOMAIN fs[k].fns
    /\ fs[k].fns[id] # "nil"

\* A useVar that finds every variable.
useVarAny(vs, v) == TRUE

\* parser.useVar: the variable is one of p.vars.
useVar(vs, v) == \E k \in 1..Len(vs) : vs[k] = v

\* parser.popVars
popVars(vs, n) == SubSeq(vs, 1, n)

\* command, after nargs arguments.
RECURSIVE command(_, _, _)
command(at, nargs, vs) ==
  LET t == Tok(at + 1)
  IN IF t = "Right" THEN
       (IF nargs = 0 THEN Errorf(at + 1, "empty command")
        ELSE [pos |-> at, err |-> ""])
     ELSE IF t = "Error" THEN Errorf(at + 1, "lex error")
     ELSE IF t \in IdentifierTokens THEN
       (IF hasFunction(funcs, t) THEN command(at + 1, nargs + 1, vs)
        ELSE Errorf(at + 1, "function not defined"))
     ELSE IF t \in VariableTokens THEN
       (IF useVar(vs, t) THEN command(at + 1, nargs + 1, vs)
        ELSE Errorf(at + 1, "undefined variable"))
     ELSE IF t \in Operands THEN command(at + 1, nargs + 1, vs)
     ELSE Errorf(at + 1, "unexpected token in command")

\* The loop of pipeline over its commands, after ncmds commands.
RECURSIVE commands(_, _, _)
commands(at, ncmds, vs) ==
  LET t == Tok(at + 1)
  IN IF t = "Right" THEN
       (IF ncmds = 0 THEN Errorf(at + 1, "missing value")
        ELSE [pos |-> at + 1, err |-> "", vars |-> vs])
     ELSE IF t \in Operands \cup IdentifierTokens \cup VariableTokens THEN
       Bind(command(at, 0, vs), LAMBDA c : commands(c.pos, ncmds + 1, vs))
     ELSE Errorf(at + 1, "unexpected token in pipeline")

\* pipeline: a declaration, which is added to p.vars, then the commands.
pipeline(at, vs) ==
  IF Tok(at + 1) \in VariableTokens /\ Tok(at + 2) = ":="
  THEN commands(at + 2, 0, Append(vs, Tok(at + 1)))
  ELSE commands(at, 0, vs)

RECURSIVE itemList(_, _, _)

\* parseControl for {{if}}: pipeline, list, and a second list after {{else}}.
\* Without {{else}} the ElseList stays nil.  The deferred popVars cuts
\* p.vars back to its length at entry.
parseControl(at, vs) ==
  Bind(pipeline(at, vs), LAMBDA p :
    Bind(itemList(p.pos, <<>>, p.vars), LAMBDA l :
      IF l.next = "end"
      THEN [pos |-> l.pos, err |-> "", vars |-> popVars(l.vars, Len(vs)),
            node |-> IfNodeNoElse(l.list)]
      ELSE Bind(itemList(l.pos, <<>>, l.vars), LAMBDA e :
             IF e.next # "end" THEN Errorf(e.pos, "expected end")
             ELSE [pos |-> e.pos, err |-> "",
                   vars |-> popVars(e.vars, Len(vs)),
                   node |-> IfNode(l.list, e.list)])))

\* newRange(p.parseControl("range")) and newWith(p.parseControl("with")): the
\* node parseControl built, as a RangeNode or a WithNode.
newBranch(r, kind) ==
  IF r.err # "" THEN r ELSE [r EXCEPT !.node.kind = kind]
rangeControl(at, vs) == newBranch(parseControl(at, vs), "range")
withControl(at, vs) == newBranch(parseControl(at, vs), "with")

blockOrFill(at, vs) ==
  IF Tok(at + 1) \notin StringTokens THEN Errorf(at + 1, "expected string")
  ELSE
    Bind(IF Tok(at + 2) = "Right" THEN [pos |-> at + 2, err |-> "", vars |-> vs]
         ELSE pipeline(at + 1, vs),
         LAMBDA p :
           Bind(itemList(p.pos, <<>>, p.vars), LAMBDA l :
             IF l.next # "end" THEN Errorf(l.pos, "expected <end>")
             ELSE [pos |-> l.pos, err |-> "", vars |-> l.vars,
                   name |-> Unquote(Tok(at + 1)), list |-> l.list]))

blockControl(at, vs) ==
  Bind(blockOrFill(at, vs), LAMBDA r :
    [pos |-> r.pos, err |-> "", vars |-> r.vars,
     node |-> BlockNode(r.name, r.list)])

\* n := newFill(...); n.validate(n.List); return n
Validated(r, v) ==
  IF v # "" THEN Errorf(r.pos, v)
  ELSE [pos |-> r.pos, err |-> "", vars |-> r.vars,
        node |-> FillNode(r.name, r.list)]

fillControl(at, vs) ==
  Bind(blockOrFill(at, vs), LAMBDA r : Validated(r, validate(r.list)))

\* action: the left delimiter is past.
action(at, vs) ==
  LET t == Tok(at + 1)
  IN IF t \in {"Else", "End"} THEN
       (IF Tok(at + 2) = "Right"
        THEN [pos |-> at + 2, err |-> "", vars |-> vs,
              node |-> MarkNode(IF t = "Else" THEN "else" ELSE "end")]
        ELSE Errorf(at + 2, "expected right delim"))
     ELSE IF t = "If" THEN parseControl(at + 1, vs)
     ELSE IF t = "Range" THEN rangeControl(at + 1, vs)
     ELSE IF t = "With" THEN withControl(at + 1, vs)
     ELSE IF t = "Block" THEN blockControl(at + 1, vs)
     ELSE IF t = "Fill" THEN fillControl(at + 1, vs)
     ELSE Bind(pipeline(at, vs), LAMBDA p :
            [pos |-> p.pos, err |-> "", vars |-> p.vars,
             node |-> MarkNode("action")])

textOrAction(at, vs) ==
  LET t == Tok(at + 1)
  IN IF t \in TextTokens
     THEN [pos |-> at + 1, err |-> "", vars |-> vs, node |-> TextNode(TextOf(t))]
     ELSE IF t = "Left" THEN action(at + 1, vs)
     ELSE Errorf(at + 1, "unexpected token in input")

\* itemList: textOrAction* up to {{end}} or {{else}}, which is returned apart.
itemList(at, acc, vs) ==
  IF Tok(at + 1) = "EOF" THEN Errorf(at + 1, "unexpected EOF")
  ELSE Bind(textOrAction(at, vs), LAMBDA n :
         IF n.node.kind \in {"end", "else"}
         THEN [pos |-> n.pos, err |-> "", vars |-> n.vars,
               list |-> acc, next |-> n.node.kind]
         ELSE itemList(n.pos, Append(acc, n.node), n.vars))

\* parseDefinition: the define keyword is past.  The deferred popVars(1)
\* leaves "$" alone in p.vars.
parseDefinition(at, vs) ==
  IF Tok(at + 1) \notin StringTokens THEN Errorf(at + 1, "expected string")
  ELSE IF Tok(at + 2) # "Right" THEN Errorf(at + 2, "expected right delim")
  ELSE Bind(itemList(at + 2, <<>>, vs), LAMBDA l :
         IF l.next # "end" THEN Errorf(l.pos, "unexpected {{else}}")
         ELSE [pos |-> l.pos, err |-> "", vars |-> popVars(l.vars, 1),
               node |-> [name |-> Unquote(Tok(at + 1)), list |-> l.list]])

\* parser.recover: a runtime.Error is raised again, any other panic value is
\* the error Parse returns.
Recover(e) == IF e = RuntimeError THEN "panic" ELSE "error"

\* if err := p.tree.Add(node); err != nil { p.error(err) }
Added(t, d, a) ==
  [tree |-> a.tree, pos |-> d.pos, vars |-> d.vars,
   pres |-> IF a.err # "nil" THEN Recover(a.err) ELSE "running"]

\* What parseDefinition and Add left; on the way out of a parseDefinition
\* that went wrong the deferred popVars(1) has run too.
Defined(t, d, vs) ==
  IF d.err # ""
  THEN [tree |-> t, pos |-> d.pos, vars |-> popVars(vs, 1),
        pres |-> Recover(d.err)]
  ELSE Added(t, d, Add(t, d.node))

\* One round of the loop of parse on a left delimiter, at token number at.
parseLeftDelim(t, at, vs) ==
  IF Tok(at + 1) # "Define"
  THEN [tree |-> t, pos |-> at + 1, vars |-> vs,
        pres |-> Recover("expected define in template root")]
  ELSE Defined(t, parseDefinition(at + 1, vs), vs)

InitParse ==
  /\ MergeIdle
  /\ treeSet = <<>>
  /\ treeSet0 = <<>>
  /\ cpc = "idle"
  /\ todo1 = {}
  /\ todo2 = {}
  /\ name = ""
  /\ deps = <<>>
  /\ names = <<>>
  /\ result = ""
  /\ steps = 0
  /\ text = <<>>
  /\ input = <<>>
  /\ lexEnd = "EOF"
  /\ pos = 0
  /\ ptree = <<>>
  /\ skipped = <<>>
  /\ pres = "lexing"
  /\ pvars = <<"$">>
  /\ funcs = <<>>
  /\ parsed = NotPrinted
  /\ LexIdle

\* The source grows by one chunk, the token stream by the tokens of it.
LexChunk ==
  /\ pres = "lexing"
  /\ Len(text) < MaxChunks
  /\ \E c \in Chunks :
       /\ text' = Append(text, c)
       /\ input' = input \o ChunkTokens(c)
  /\ UNCHANGED <<lexEnd, pos, ptree, skipped, pres, pvars, funcs, parsed>>
  /\ UNCHANGED <<compileVars, mergeVars, lexVars>>

\* The source ends: the lexer ends its tokens with EOF for ever (lexEOF).
LexEOF ==
  /\ pres = "lexing"
  /\ lexEnd' = "EOF"
  /\ pres' = "running"
  /\ UNCHANGED <<text, input, pos, ptree, skipped, pvars, funcs, parsed>>
  /\ UNCHANGED <<compileVars, mergeVars, lexVars>>

\* The source ends in a lexical error: the lexer ends its tokens with Error
\* for ever (lexError).
LexError ==
  /\ pres = "lexing"
  /\ lexEnd' = "Error"
  /\ pres' = "running"
  /\ UNCHANGED <<text, input, pos, ptree, skipped, pvars, funcs, parsed>>
  /\ UNCHANGED <<compileVars, mergeVars, lexVars>>

\* case itemEOF: return p.tree, nil
ParseEOF ==
  /\ pres = "running"
  /\ Tok(pos + 1) = "EOF"
  /\ pos' = pos + 1
  /\ pres' = "nil"
  /\ UNCHANGED <<text, input, lexEnd, ptree, skipped, pvars, funcs, parsed>>
  /\ UNCHANGED <<compileVars, mergeVars, lexVars>>

\* case itemLeftDelim: expect define, parseDefinition, p.tree.Add
ParseLeftDelim ==
  /\ pres = "running"
  /\ Tok(pos + 1) = "Left"
  /\ LET r == parseLeftDelim(ptree, pos + 1, pvars)
     IN /\ ptree' = r.tree
        /\ pos' = r.pos
        /\ pres' = r.pres
        /\ pvars' = r.vars
  /\ UNCHANGED <<text, input, lexEnd, skipped, funcs, parsed>>
  /\ UNCHANGED <<compileVars, mergeVars, lexVars>>

\* The switch has no case for any other token: the loop goes on.
ParseOther ==
  /\ pres = "running"
  /\ Tok(pos + 1) \notin {"EOF", "Left"}
  /\ pos + 1 <= Len(input) + MaxPast
  /\ pos' = pos + 1
  /\ skipped' = Append(skipped, Tok(pos + 1))
  /\ UNCHANGED <<text, input, lexEnd, ptree, pres, pvars, funcs, parsed>>
  /\ UNCHANGED <<compileVars, mergeVars, lexVars>>

NextParse ==
  \/ LexChunk
  \/ LexEOF
  \/ LexError
  \/ ParseEOF
  \/ ParseLeftDelim
  \/ ParseOther

SpecParse == InitParse /\ [][NextParse]_vars

\* The source grows by one chunk of those that declare and use variables.
LexVarChunk ==
  /\ pres = "lexing"
  /\ Len(text) < MaxChunks
  /\ \E c \in VarChunks :
       /\ text' = Append(text, c)
       /\ input' = input \o ChunkTokens(c)
  /\ UNCHANGED <<lexEnd, pos, ptree, skipped, pres, pvars, funcs, parsed>>
  /\ UNCHANGED <<compileVars, mergeVars, lexVars>>

NextVars ==
  \/ LexVarChunk
  \/ LexEOF
  \/ LexError
  \/ ParseEOF
  \/ ParseLeftDelim
  \/ ParseOther

SpecVars == InitParse /\ [][NextVars]_vars

\* The chunks of the sources that declare $x in the pipeline or in the body
\* of a block or a fill, {{block "a" $x := .}} and {{fill "a" $x := .}}, and
\* use it.
MaxScopeChunks == 6

ScopeChunks == {"DEF", "BLOCK", "BLOCKX", "FILL", "FILLX", "DECLX", "USEX", "END"}

LexScopeChunk ==
  /\ pres = "lexing"
  /\ Len(text) < MaxScopeChunks
  /\ \E c \in ScopeChunks :
       /\ text' = Append(text, c)
       /\ input' = input \o ChunkTokens(c)
  /\ UNCHANGED <<lexEnd, pos, ptree, skipped, pres, pvars, funcs, parsed>>
  /\ UNCHANGED <<compileVars, mergeVars, lexVars>>

NextScope ==
  \/ LexScopeChunk
  \/ LexEOF
  \/ ParseEOF
  \/ ParseLeftDelim

SpecScope == InitParse /\ [][NextScope]_vars

\* The sources of one definition whose body is one fill, the body of the
\* fill being one {{if}}, {{with}} or {{range}}, with or without {{else}},
\* whose branches hold at most MaxBranch nodes, each an empty block or
\* whitespace text.
MaxBranch == 2

BranchItems == {<<"BLOCK", "END">>, <<"SPACE">>}

RECURSIVE BranchesOfLen(_)
BranchesOfLen(k) ==
  IF k = 0 THEN {<<>>}
  ELSE {b \o it : b \in BranchesOfLen(k - 1), it \in BranchItems}

Branches == UNION {BranchesOfLen(k) : k \in 0..MaxBranch}

FillSourcesNoElse ==
  {<<"DEF", "FILL", c>> \o b \o <<"END", "END", "END">> :
     c \in {"IF", "WITH", "RANGE"}, b \in Branches}

FillSourcesElse ==
  {<<"DEF", "FILL", c>> \o b \o <<"ELSE">> \o e \o <<"END", "END", "END">> :
     c \in {"IF", "WITH", "RANGE"}, b \in Branches, e \in Branches}

FillSources == FillSourcesNoElse \cup FillSourcesElse

RECURSIVE TokensOfChunks(_)
TokensOfChunks(src) ==
  IF src = <<>> THEN <<>>
  ELSE ChunkTokens(Head(src)) \o TokensOfChunks(Tail(src))

\* The source is one of the fill sources, lexed whole.
LexFillSource ==
  /\ pres = "lexing"
  /\ text = <<>>
  /\ \E src \in FillSources :
       /\ text' = src
       /\ input' = TokensOfChunks(src)
  /\ UNCHANGED <<lexEnd, pos, ptree, skipped, pres, pvars, funcs, parsed>>
  /\ UNCHANGED <<compileVars, mergeVars, lexVars>>

\* The lexer ends the tokens of a fill source with EOF.
LexFillEOF == text # <<>> /\ LexEOF

NextFill ==
  \/ LexFillSource
  \/ LexFillEOF
  \/ ParseEOF
  \/ ParseLeftDelim

SpecFill == InitParse /\ [][NextFill]_vars

\* The chunks of the sources that are printed and parsed again; a run of
\* text is one chunk.
RoundChunks ==
  {"DEF", "DEFB", "FILL", "BLOCK", "IF", "ELSE", "END", "TEXT", "SPACE", "QUOTES"}
TextChunks == {"TEXT", "SPACE", "QUOTES", "QTEXT", "QSPACE", "QQUOTES"}

\* The chunk of a text.
TextChunk(s) == CHOOSE c \in TextChunks : TextOf(ChunkTokens(c)[1]) = s

\* The tokens of a source.
RECURSIVE Tokens(_)
Tokens(src) ==
  IF src = <<>> THEN <<>> ELSE ChunkTokens(Head(src)) \o Tokens(Tail(src))

\* Node.String of the nodes of a list, one after the other (ListNode.String):
\* TextNode.String is %q of the text, BranchNode.String writes {{else}} when
\* the ElseList is not nil, the name of a block or fill is written with %q.
RECURSIVE ListString(_)
NodeString(n) ==
  CASE n.kind = "text" -> <<TextChunk(Quote(n.text))>>
    [] n.kind = "action" -> <<"ACT">>
    [] n.kind = "if" ->
         <<"IF">> \o ListString(n.list)
           \o (IF n.hasElse THEN <<"ELSE">> \o ListString(n.elseList) ELSE <<>>)
           \o <<"END">>
    [] n.kind = "block" -> <<"BLOCK">> \o ListString(n.list) \o <<"END">>
    [] n.kind = "fill" -> <<"FILL">> \o ListString(n.list) \o <<"END">>

ListString(nodes) ==
  IF nodes = <<>> THEN <<>> ELSE NodeString(Head(nodes)) \o ListString(Tail(nodes))

\* DefineNode.String
DefineString(d) ==
  <<IF d.name = "a" THEN "DEF" ELSE "DEFB">> \o ListString(d.list) \o <<"END">>

\* Tree.String, the range visiting the keys of t in the order o from i on.
RECURSIVE TreeString(_, _, _)
TreeString(t, o, i) ==
  IF i > Len(o) THEN <<>> ELSE DefineString(t[o[i]]) \o TreeString(t, o, i + 1)

\* The source grows by one chunk of those that are printed.
LexRoundChunk ==
  /\ pres = "lexing"
  /\ Len(text) < MaxChunks
  /\ \E c \in RoundChunks :
       /\ ~(c \in TextChunks /\ text # <<>> /\ text[Len(text)] \in TextChunks)
       /\ text' = Append(text, c)
       /\ input' = input \o ChunkTokens(c)
  /\ UNCHANGED <<lexEnd, pos, ptree, skipped, pres, pvars, funcs, parsed>>
  /\ UNCHANGED <<compileVars, mergeVars, lexVars>>

\* Parse(tree.String()), of the tree Parse returned.
ParsePrinted ==
  /\ pres = "nil"
  /\ ~parsed.done
  /\ \E o \in Orders(DOMAIN ptree) :
       /\ text' = TreeString(ptree, o, 1)
       /\ input' = Tokens(TreeString(ptree, o, 1))
  /\ parsed' = [done |-> TRUE, tree |-> ptree]
  /\ lexEnd' = "EOF"
  /\ pos' = 0
  /\ ptree' = <<>>
  /\ skipped' = <<>>
  /\ pres' = "running"
  /\ pvars' = <<"$">>
  /\ UNCHANGED funcs
  /\ UNCHANGED <<compileVars, mergeVars, lexVars>>

NextRound ==
  \/ LexRoundChunk
  \/ LexEOF
  \/ ParseEOF
  \/ ParseLeftDelim
  \/ ParseOther
  \/ ParsePrinted

SpecRound == InitParse /\ [][NextRound]_vars

\* Bounds on the function maps Parse is given and on the chunks of a source
\* that calls functions.
MaxMaps == 2
MaxCallChunks == 4

\* The chunks of the sources that call functions: {{f}} and {{g .}}.
CallChunks == {"DEF", "END", "CALLF", "CALLG"}

\* The function maps: the nil map, and the maps that hold a function or a
\* nil value under some of the identifiers.
FuncMaps ==
  {FuncMap(TRUE, <<>>)} \cup
  UNION {{FuncMap(FALSE, m) : m \in [S -> {"fn", "nil"}]} :
           S \in SUBSET IdentifierTokens}

FuncTables == UNION {[1..k -> FuncMaps] : k \in 0..MaxMaps}

\* Parse(text, name, leftDelim, rightDelim, funcs...)
InitFuncs ==
  /\ MergeIdle
  /\ treeSet = <<>>
  /\ treeSet0 = <<>>
  /\ cpc = "idle"
  /\ todo1 = {}
  /\ todo2 = {}
  /\ name = ""
  /\ deps = <<>>
  /\ names = <<>>
  /\ result = ""
  /\ steps = 0
  /\ text = <<>>
  /\ input = <<>>
  /\ lexEnd = "EOF"
  /\ pos = 0
  /\ ptree = <<>>
  /\ skipped = <<>>
  /\ pres = "lexing"
  /\ pvars = <<"$">>
  /\ funcs \in FuncTables
  /\ parsed = NotPrinted
  /\ LexIdle

\* The source grows by one chunk of those that call functions.
LexCallChunk ==
  /\ pres = "lexing"
  /\ Len(text) < MaxCallChunks
  /\ \E c \in CallChunks :
       /\ text' = Append(text, c)
       /\ input' = input \o ChunkTokens(c)
  /\ UNCHANGED <<lexEnd, pos, ptree, skipped, pres, pvars, funcs, parsed>>
  /\ UNCHANGED <<compileVars, mergeVars, lexVars>>

NextFuncs ==
  \/ LexCallChunk
  \/ LexEOF
  \/ LexError
  \/ ParseEOF
  \/ ParseLeftDelim
  \/ ParseOther

SpecFuncs == InitFuncs /\ [][NextFuncs]_vars

(***************************************************************************)
(* The queue-based lexer of template/parse (lexer.go, state.go).  The      *)
(* input is a sequence of one-byte characters; positions count from 0 as   *)
(* in the code.  A token is a record of its type, its position and its     *)
(* value.                                                                  *)
(***************************************************************************)
\* Bounds on the length of an input and on the calls of next().
MaxInput == 5
MaxNext == 8

\* What nextRune returns at the end of the input.
eof == "eof"

sDecDigits == {"0", "1", "2", "3", "4", "5", "6", "7", "8", "9"}
sHexDigits == sDecDigits \cup {"A", "B", "C", "D", "E", "F"}
sAlphaLower ==
  {"a", "b", "c", "d", "e", "f", "g", "h", "i", "j", "k", "l", "m",
   "n", "o", "p", "q", "r", "s", "t", "u", "v", "w", "x", "y", "z"}
sAlphaUpper ==
  {"A", "B", "C", "D", "E", "F", "G", "H", "I", "J", "K", "L", "M",
   "N", "O", "P", "Q", "R", "S", "T", "U", "V", "W", "X", "Y", "Z"}
sAlphaNum == sAlphaLower \cup sAlphaUpper \cup sDecDigits

\* The keys of the symbols table.
symbols ==
  {<<"(">>, <<")">>, <<"*">>, <<"*", "=">>, <<"/">>, <<"/", "=">>,
   <<"%">>, <<"%", "=">>, <<"+">>, <<"+", "=">>, <<"-">>, <<"-", "=">>,
   <<"?">>, <<"=">>, <<"=", "=">>, <<":">>, <<":", "=">>, <<"!">>,
   <<"!", "=">>, <<">">>, <<">", "=">>, <<"<">>, <<"<", "=">>,
   <<"&", "&">>, <<"|", "|">>}

\* symbols[s]: a key that is missing yields the zero token type, tokenError.
symbolType(s) == IF s \in symbols THEN "Symbol" ELSE "Error"

isAlphaNumeric(r) == r = "_" \/ r \in sAlphaNum
isSpace(r) == r \in {" ", "\t", "\n", "\r"}

\* The lexer never sets its define field.
define == FALSE

\* in[a:b], strings.HasPrefix and strings.Index.
Slice(in, a, b) == SubSeq(in, a + 1, b)
HasPrefix(str, prefix) ==
  Len(str) >= Len(prefix) /\ SubSeq(str, 1, Len(prefix)) = prefix
Index(str, sub) ==
  LET at == {i \in 0..(Len(str) - Len(sub)) : Slice(str, i, i + Len(sub)) = sub}
  IN IF at = {} THEN -1 ELSE CHOOSE i \in at : \A j \in at : i <= j

\* strings.Replace(input, "\r\n", "\n", -1)
RECURSIVE ReplaceCRLF(_)
ReplaceCRLF(in) ==
  IF in = <<>> THEN <<>>
  ELSE IF HasPrefix(in, <<"\r", "\n">>)
  THEN <<"\n">> \o ReplaceCRLF(SubSeq(in, 3, Len(in)))
  ELSE <<Head(in)>> \o ReplaceCRLF(Tail(in))

newLexer(in) ==
  [input |-> ReplaceCRLF(in), pin |-> 0, pos |-> 0, width |-> 0,
   state |-> "lexFile", queue |-> <<>>]

\* queue.push and queue.pop: first in, first out.
push(q, t) == Append(q, t)
pop(q) == [token |-> Head(q), queue |-> Tail(q)]

emit(l, typ) ==
  [l EXCEPT !.queue = push(@, [typ |-> typ, pos |-> l.pin,
                               val |-> Slice(l.input, l.pin, l.pos)]),
            !.pin = l.pos]

emitValue(l, typ, at, value) ==
  [l EXCEPT !.queue = push(@, [typ |-> typ, pos |-> at, val |-> value]),
            !.pin = l.pos]

skip(l) == [l EXCEPT !.pin = l.pos]

\* nextRune: the rune it returns, and the lexer after it.
runeAt(l) == IF l.pos >= Len(l.input) THEN eof ELSE l.input[l.pos + 1]
nextRune(l) ==
  IF l.pos >= Len(l.input) THEN [l EXCEPT !.width = 0]
  ELSE [l EXCEPT !.width = 1, !.pos = @ + 1]

backup(l) == [l EXCEPT !.pos = @ - l.width]

\* accept, acceptOne: the lexer after the call; the rune was consumed when
\* runeAt is the rune, or one of the runes, asked for.
accept(l, r) == IF runeAt(l) = r THEN nextRune(l) ELSE backup(nextRune(l))
acceptOne(l, valid) ==
  IF runeAt(l) \in valid THEN nextRune(l) ELSE backup(nextRune(l))

RECURSIVE acceptMany(_, _)
acceptMany(l, valid) ==
  IF runeAt(l) \in valid THEN acceptMany(nextRune(l), valid)
  ELSE backup(nextRune(l))

acceptPrefix(l, prefix) ==
  IF l.pos < Len(l.input) /\ HasPrefix(Slice(l.input, l.pos, Len(l.input)), prefix)
  THEN [l EXCEPT !.width = Len(prefix), !.pos = @ + Len(prefix)]
  ELSE l

\* acceptUntilRune, from1 being the position to go back to without a match.
RECURSIVE acceptUntilRune(_, _, _)
acceptUntilRune(l, r, from1) ==
  IF runeAt(l) = r THEN nextRune(l)
  ELSE IF runeAt(l) = eof THEN [nextRune(backup(nextRune(l))) EXCEPT !.pos = from1]
  ELSE acceptUntilRune(nextRune(backup(nextRune(l))), r, from1)

\* acceptUntilPrefix: the position moves to the prefix, by the number of
\* runes before it.
acceptUntilPrefix(l, prefix) ==
  LET i == Index(Slice(l.input, l.pos, Len(l.input)), prefix)
  IN IF l.pos < Len(l.input) /\ i >= 0
     THEN [l EXCEPT !.width = i, !.pos = @ + i]
     ELSE l

errorf(l, message) ==
  [emitValue(l, "Error", l.pin, message) EXCEPT !.state = "lexError"]

emitText(l, offset) ==
  IF l.pos - offset > l.pin
  THEN [emitValue(l, "Text", l.pin, Slice(l.input, l.pin, l.pos - offset))
          EXCEPT !.pin = l.pos - offset]
  ELSE l

RECURSIVE lexFile(_)
lexFile(l) ==
  IF runeAt(l) = "/" /\ ~define THEN [nextRune(l) EXCEPT !.state = "lexComment"]
  ELSE IF runeAt(l) = "{"
  THEN [emitText(nextRune(l), 1) EXCEPT !.state = "lexTagStart"]
  ELSE IF runeAt(l) = eof
  THEN [emitValue(emitText(nextRune(l), 1), "EOF", l.pos, <<>>)
          EXCEPT !.state = "lexEOF"]
  ELSE lexFile(nextRune(l))

lexEOF(l) == [emitValue(l, "EOF", l.pos, <<>>) EXCEPT !.state = "lexEOF"]

\* A lexError that goes back to lexFile.
lexErrorResumes(l) == [emitValue(l, "Error", -1, <<>>) EXCEPT !.state = "lexFile"]

lexError(l) == [emitValue(l, "Error", -1, <<>>) EXCEPT !.state = "lexError"]

\* utf8.DecodeLastRuneInString(l.input[:k]): RuneError on the empty string.
lastRune(in, k) == IF k = 0 THEN "RuneError" ELSE in[k]

\* lexComment: a slash was consumed.
lexComment(l) ==
  LET n == nextRune(l)
  IN [(IF runeAt(l) = "/"
       THEN (IF n.pos - 2 < 0 \/ isSpace(lastRune(n.input, n.pos - 2))
             THEN emit(acceptUntilRune(emitText(n, 2), "\n", n.pos), "Comment")
             ELSE n)
       ELSE IF runeAt(l) = "*"
       THEN emit(acceptUntilPrefix(emitText(n, 2), <<"*", "/">>), "Comment")
       ELSE n)
      EXCEPT !.state = "lexFile"]

lexTagStart(l) ==
  [emitValue(l, "LeftBrace", l.pos - 1, <<>>) EXCEPT !.state = "lexTagContent"]

lexTagEnd(l) ==
  [emitValue(l, "RightBrace", l.pos - 1, <<>>) EXCEPT !.state = "lexFile"]

lexTagComment(l) ==
  LET i == Index(Slice(l.input, l.pos, Len(l.input)), <<"*", "/", "}">>)
  IN IF i < 0 THEN errorf(l, "unclosed comment tag")
     ELSE [skip([l EXCEPT !.pos = @ + i + 3]) EXCEPT !.state = "lexFile"]

\* The symbol cases of lexTagContent: l.accept('=') and the symbol.
lexSymbol(l) ==
  LET a == accept(l, "=")
  IN emitValue(a, symbolType(Slice(a.input, a.pin, a.pos)), a.pin, <<>>)

\* lexTagContent: a tag is open.
lexTagContent(l) ==
  LET r == runeAt(l)
      n == nextRune(l)
  IN IF r = "}" THEN [n EXCEPT !.state = "lexTagEnd"]
     ELSE IF r = "[" THEN [n EXCEPT !.state = "lexIndex"]
     ELSE IF r = "\"" THEN [n EXCEPT !.state = "lexQuote"]
     ELSE IF r = "." THEN [n EXCEPT !.state = "lexIdentifier"]
     ELSE IF r \in sDecDigits THEN [backup(n) EXCEPT !.state = "lexNumber"]
     ELSE IF r \in {" ", "\t", "\r"}
     THEN [skip(acceptMany(n, {" ", "\t", "\r"})) EXCEPT !.state = "lexTagContent"]
     ELSE IF r \in {"(", ")", "?"}
     THEN [emitValue(n, symbolType(Slice(n.input, n.pin, n.pos)), n.pin, <<>>)
             EXCEPT !.state = "lexTagContent"]
     ELSE IF r = "/" /\ runeAt(n) = "*"
     THEN [accept(n, "*") EXCEPT !.state = "lexTagComment"]
     ELSE IF r = "/"
     THEN [lexSymbol(accept(n, "*")) EXCEPT !.state = "lexTagContent"]
     ELSE IF r \in {"*", "%", "+", "-", "=", ":", "!", "<", ">"}
     THEN [lexSymbol(n) EXCEPT !.state = "lexTagContent"]
     ELSE IF r \in {"&", "|"}
     THEN (IF runeAt(n) # r THEN errorf(accept(n, r), "expected symbol twice")
           ELSE [emitValue(accept(n, r),
                           symbolType(Slice(n.input, n.pin, n.pos + 1)),
                           n.pin, <<>>)
                   EXCEPT !.state = "lexTagContent"])
     ELSE IF r \in {eof, "\n"} THEN errorf(n, "unclosed action")
     ELSE IF isAlphaNumeric(r) THEN [backup(n) EXCEPT !.state = "lexIdentifier"]
     ELSE errorf(n, "unrecognized character in tag")

RECURSIVE lexIdentifier(_)
lexIdentifier(l) ==
  IF isAlphaNumeric(runeAt(l)) THEN lexIdentifier(nextRune(l))
  ELSE IF runeAt(l) = "." /\ l.input[l.pin + 1] = "." THEN lexIdentifier(nextRune(l))
  ELSE LET b == backup(nextRune(l))
           word == Slice(b.input, b.pin, b.pos)
       IN [emit(b, IF word[1] = "." THEN "Var"
                   ELSE IF word \in {<<"t", "r", "u", "e">>, <<"f", "a", "l", "s", "e">>}
                   THEN "Bool"
                   ELSE "Ident")
             EXCEPT !.state = "lexTagContent"]

\* A lexQuote that ends the string at the first quote, escaped or not.
RECURSIVE lexQuoteRaw(_)
lexQuoteRaw(l) ==
  IF runeAt(l) \in {eof, "\n"} THEN errorf(nextRune(l), "unterminated quoted string")
  ELSE IF runeAt(l) = "\""
  THEN [emit(nextRune(l), "String") EXCEPT !.state = "lexTagContent"]
  ELSE lexQuoteRaw(nextRune(l))

\* lexQuote: the opening quote was consumed.
RECURSIVE lexQuote(_)
lexQuote(l) ==
  LET r == runeAt(l)
      n == nextRune(l)
  IN IF r = "\\" THEN
       (IF runeAt(n) \notin {eof, "\n"} THEN lexQuote(nextRune(n))
        ELSE errorf(nextRune(n), "unterminated quoted string"))
     ELSE IF r \in {eof, "\n"} THEN errorf(n, "unterminated quoted string")
     ELSE IF r = "\"" THEN [emit(n, "String") EXCEPT !.state = "lexTagContent"]
     ELSE lexQuote(n)

\* scanNumber: the lexer after it, the token type and whether it went well.
NumberEnd(l, t) ==
  LET a == acceptMany(l, sAlphaNum)
  IN [l |-> a, t |-> t, ok |-> a.pos = l.pos]

NumberExponent(l, t) ==
  IF runeAt(l) = "e"
  THEN LET s == acceptOne(accept(l, "e"), {"+", "-"})
           d == acceptMany(s, sDecDigits)
       IN IF d.pos = s.pos THEN [l |-> d, t |-> t, ok |-> FALSE]
          ELSE NumberEnd(d, "Float")
  ELSE NumberEnd(accept(l, "e"), t)

scanNumber(l) ==
  LET p == acceptPrefix(l, <<"0", "x">>)
  IN IF p.pos # l.pos THEN
       LET h == acceptMany(p, sHexDigits)
       IN IF h.pos = p.pos THEN [l |-> h, t |-> "Int", ok |-> FALSE]
          ELSE IF runeAt(h) = "." THEN [l |-> accept(h, "."), t |-> "Int", ok |-> FALSE]
          ELSE NumberEnd(accept(h, "."), "Int")
     ELSE
       LET d == acceptMany(l, sDecDigits)
       IN IF d.pos = l.pos THEN [l |-> d, t |-> "Int", ok |-> FALSE]
          ELSE IF runeAt(d) = "." THEN
            LET f == acceptMany(accept(d, "."), sDecDigits)
            IN IF f.pos = d.pos + 1 THEN [l |-> f, t |-> "Int", ok |-> FALSE]
               ELSE NumberExponent(f, "Float")
          ELSE IF d.input[d.pin + 1] = "0"
          THEN [l |-> accept(d, "."), t |-> "Int", ok |-> FALSE]
          ELSE NumberExponent(accept(d, "."), "Int")

lexNumber(l) ==
  LET n == scanNumber(l)
  IN IF ~n.ok THEN errorf(n.l, "bad number syntax")
     ELSE [emit(n.l, n.t) EXCEPT !.state = "lexTagContent"]

lexIndex(l) == errorf(l, "indexes are not supported yet")

\* l.state(l)
stateFn(l) ==
  CASE l.state = "lexFile" -> lexFile(l)
    [] l.state = "lexEOF" -> lexEOF(l)
    [] l.state = "lexError" -> lexError(l)
    [] l.state = "lexComment" -> lexComment(l)
    [] l.state = "lexTagStart" -> lexTagStart(l)
    [] l.state = "lexTagEnd" -> lexTagEnd(l)
    [] l.state = "lexTagComment" -> lexTagComment(l)
    [] l.state = "lexTagContent" -> lexTagContent(l)
    [] l.state = "lexIdentifier" -> lexIdentifier(l)
    [] l.state = "lexQuote" -> lexQuote(l)
    [] l.state = "lexNumber" -> lexNumber(l)
    [] l.state = "lexIndex" -> lexIndex(l)

\* The loop of lexer.next up to the moment the queue holds a token.
RECURSIVE untilToken(_)
untilToken(l) ==
  IF l.queue # <<>> THEN l
  ELSE IF l.state = "nil"
  THEN untilToken([emitValue(l, "Error", -1, "state is nil") EXCEPT !.state = "lexError"])
  ELSE untilToken(stateFn(l))

\* The inputs: every sequence of at most MaxInput of these characters.
LexAlphabet == {"{", "}", "a", "\"", "\\", "\n", "/", "*", " "}
LexInputs == UNION {[1..k -> LexAlphabet] : k \in 0..MaxInput}

OtherIdle ==
  /\ MoreIdle
  /\ MergeIdle
  /\ ParseIdle
  /\ treeSet = <<>>
  /\ treeSet0 = <<>>
  /\ cpc = "idle"
  /\ todo1 = {}
  /\ todo2 = {}
  /\ name = ""
  /\ deps = <<>>
  /\ names = <<>>
  /\ result = ""
  /\ steps = 0

InitLex ==
  /\ OtherIdle
  /\ ScanIdle
  /\ \E in \in LexInputs : lexer = newLexer(in)
  /\ returned = <<>>

\* lexer.next
LexerNext ==
  /\ lexer.state # "idle"
  /\ Len(returned) < MaxNext
  /\ LET l == untilToken(lexer)
     IN /\ returned' = Append(returned, pop(l.queue).token)
        /\ lexer' = [l EXCEPT !.queue = pop(l.queue).queue]
  /\ UNCHANGED <<compileVars, mergeVars, parseVars, scanVars, moreVars>>

NextLex == LexerNext

SpecLex == InitLex /\ [][NextLex]_vars

\* Lexing one tag that holds one literal starting with a digit: the literals
\* of the comment of scanNumber and every literal of at most MaxLiteral of the
\* characters of NumAlphabet.
MaxLiteral == 4
NumAlphabet == {"0", "1", "x", "A", "a", ".", "e", "-"}
NumExamples ==
  {<<"0", "x", "1", "A", "2", "B">>, <<"0", ".", "5">>, <<"3", "e", "-", "3">>,
   <<"6", ".", "0", "2", "e", "2", "3">>, <<"0", "1", "2", "3">>,
   <<"1", "2", "3", "a", "b", "c">>, <<"8", "2", "7">>, <<"1", "0", "0", ".", "0">>}
NumLiterals ==
  {w \in UNION {[1..k -> NumAlphabet] : k \in 1..MaxLiteral} : w[1] \in sDecDigits}
    \cup NumExamples
InTag(w) == <<"{">> \o w \o <<"}">>

InitNum ==
  /\ OtherIdle
  /\ ScanIdle
  /\ \E w \in NumLiterals : lexer = newLexer(InTag(w))
  /\ returned = <<>>

SpecNum == InitNum /\ [][NextLex]_vars

(***************************************************************************)
(* The Scanner of template/parse (second half of state.go).  Its goroutine *)
(* runs the state functions and sends every token on an unbuffered         *)
(* channel: scanner.sending holds the tokens the current state function    *)
(* has still to send, in order, and NextToken receives them one by one.    *)
(***************************************************************************)
\* Bounds on the length of a source and on the calls of PushToken.
MaxSource == 4
MaxPush == 1

lDelim == <<"{">>
rDelim == <<"}">>
lComment == <<"#">>
rComment == <<"#">>

\* braces: the closing delimiter of an opening one.
braces(str) ==
  CASE str = "(" -> ")"
    [] str = "{" -> "}"
    [] str = "[" -> "]"

\* stringToType[str]: a key that is missing yields the zero value, TokenEOF.
stringToType(str) ==
  CASE str = <<"(">> -> "LParen"
    [] str = <<")">> -> "RParen"
    [] str = <<"{">> -> "LBrace"
    [] str = <<"}">> -> "RBrace"
    [] str = <<"[">> -> "LBracket"
    [] str = <<"]">> -> "RBracket"
    [] str = <<".">> -> "Dot"
    [] str = <<"|">> -> "Pipe"
    [] str = <<",">> -> "Comma"
    [] str = <<":">> -> "Colon"
    [] str = <<"!">> -> "Not"
    [] str = <<"*">> -> "Mul"
    [] str = <<"/">> -> "Div"
    [] str = <<"%">> -> "Mod"
    [] str = <<"+">> -> "Add"
    [] str = <<"-">> -> "Sub"
    [] str = <<"=">> -> "Eq"
    [] str = <<">">> -> "Gt"
    [] str = <<"<">> -> "Lt"
    [] str = <<":", "=">> -> "ColonEq"
    [] str = <<"*", "=">> -> "MulEq"
    [] str = <<"/", "=">> -> "DivEq"
    [] str = <<"%", "=">> -> "ModEq"
    [] str = <<"+", "=">> -> "AddEq"
    [] str = <<"-", "=">> -> "SubEq"
    [] str = <<"=", "=">> -> "EqEq"
    [] str = <<"!", "=">> -> "NotEq"
    [] str = <<">", "=">> -> "GtEq"
    [] str = <<"<", "=">> -> "LtEq"
    [] str = <<"&", "&">> -> "And"
    [] str = <<"|", "|">> -> "Or"
    [] OTHER -> "EOF"

\* newScanner, the delimiters being the default ones.
newScanner(source) ==
  [src |-> source, pin |-> 0, pos |-> 0, width |-> 0, state |-> "scanRoot",
   sending |-> <<>>, closed |-> FALSE, stack |-> <<>>, braces |-> <<>>]

\* s.src[s.pos:]
Rest(s) == Slice(s.src, s.pos, Len(s.src))

\* Next: the rune it returns, and the Scanner after it.
Scanner_rune(s) == IF s.pos >= Len(s.src) THEN eof ELSE s.src[s.pos + 1]
Scanner_Next(s) ==
  IF s.pos >= Len(s.src) THEN [s EXCEPT !.width = 0]
  ELSE [s EXCEPT !.width = 1, !.pos = @ + 1]

Scanner_backup(s) == [s EXCEPT !.pos = @ - s.width]

\* Peek returns Scanner_rune(s) and leaves the Scanner so.
Scanner_Peek(s) == Scanner_backup(Scanner_Next(s))

Scanner_skip(s) == [s EXCEPT !.pin = s.pos]

Scanner_emit(s, typ) ==
  [s EXCEPT !.sending = Append(@, [typ |-> typ, pos |-> s.pin,
                                   val |-> Slice(s.src, s.pin, s.pos)]),
            !.pin = s.pos]

\* An errorf that goes on with scanRoot.
Scanner_errorfResumes(s, at, message) ==
  [s EXCEPT !.sending = Append(@, [typ |-> "Error", pos |-> at, val |-> message]),
            !.state = "scanRoot"]

Scanner_errorf(s, at, message) ==
  [s EXCEPT !.sending = Append(@, [typ |-> "Error", pos |-> at, val |-> message]),
            !.state = "nil"]

isTag(ident) == FALSE
isFunc(ident) == FALSE

pushBrace(s, delim) == [s EXCEPT !.braces = Append(@, delim)]

\* A popBrace that never fails.
popBraceNeverFails(s, delim) == FALSE

\* popBrace: whether it returns an error, and the Scanner after it.
popBraceFails(s, delim) ==
  s.braces = <<>> \/ s.braces[Len(s.braces)] # delim
popBrace(s, delim) ==
  IF popBraceFails(s, delim) THEN s
  ELSE [s EXCEPT !.braces = SubSeq(@, 1, Len(@) - 1)]

isSymbol(r) ==
  r \in {".", ",", "*", "/", "%", "+", "-", "=", ":", "!", "<", ">",
         "&", "|", "(", "{", "[", ")", "}", "]"}
isDecimal(r) == r \in sDecDigits
isHexadecimal(r) == r \in sDecDigits \cup {"A", "B", "C", "D", "E", "F"}

\* r <= unicode.MaxASCII && unicode.IsPrint(r), over the characters in use.
isPrintASCII(r) == r \notin {eof, "\t", "\n", "\r"}

atRightDelim(s) == s.braces = <<>> /\ HasPrefix(Rest(s), rDelim)

atNumberTerminator(s) ==
  LET r == Scanner_rune(s)
  IN IF isSpace(r) THEN TRUE
     ELSE IF isSymbol(r) THEN r \notin {".", "(", "[", "{"}
     ELSE atRightDelim(s)

atIdentTerminator(s) ==
  LET r == Scanner_rune(s)
  IN isSpace(r) \/ isSymbol(r) \/ atRightDelim(s)

RECURSIVE scanRoot(_)
scanRoot(s) ==
  IF HasPrefix(Rest(s), lDelim)
  THEN [(IF s.pos > s.pin THEN Scanner_emit(s, "Text") ELSE s)
          EXCEPT !.state = "scanLeftDelim"]
  ELSE IF Scanner_rune(s) = eof
  THEN LET n == Scanner_Next(s)
       IN [Scanner_emit(IF n.pos > n.pin THEN Scanner_emit(n, "Text") ELSE n, "EOF")
             EXCEPT !.state = "nil"]
  ELSE scanRoot(Scanner_Next(s))

scanLeftDelim(s) ==
  IF HasPrefix(Rest(s), lDelim \o lComment)
  THEN LET c == [s EXCEPT !.pos = @ + Len(lDelim) + Len(lComment)]
           i == Index(Rest(c), rComment \o rDelim)
       IN IF i < 0 THEN Scanner_errorf(c, s.pos, "unclosed comment tag")
          ELSE [Scanner_skip([c EXCEPT !.pos = @ + i + Len(rComment) + Len(rDelim)])
                  EXCEPT !.state = "scanRoot"]
  ELSE [Scanner_emit([s EXCEPT !.pos = @ + Len(lDelim)], "LDelim")
          EXCEPT !.state = "scanInsideTag"]

scanRightDelim(s) ==
  [Scanner_emit([s EXCEPT !.pos = @ + Len(rDelim)], "RDelim")
     EXCEPT !.state = "scanRoot"]

scanInsideTag(s) ==
  LET r == Scanner_rune(s)
      n == Scanner_Next(s)
  IN IF atRightDelim(s) THEN [s EXCEPT !.state = "scanRightDelim"]
     ELSE IF r = eof THEN Scanner_errorf(n, s.pos, "unclosed action")
     ELSE IF isSpace(r) THEN [Scanner_skip(n) EXCEPT !.state = "scanInsideTag"]
     ELSE IF r = "\"" THEN [n EXCEPT !.state = "scanString"]
     ELSE IF r \in sDecDigits THEN [Scanner_backup(n) EXCEPT !.state = "scanNumber"]
     ELSE IF isAlphaNumeric(r) THEN [Scanner_backup(n) EXCEPT !.state = "scanIdent"]
     ELSE IF isSymbol(r) THEN [Scanner_backup(n) EXCEPT !.state = "scanSymbol"]
     ELSE IF isPrintASCII(r)
     THEN [Scanner_emit(n, "Char") EXCEPT !.state = "scanInsideTag"]
     ELSE Scanner_errorf(n, s.pos, "unrecognized character inside tag")

\* scanString: the opening quote is at from1.
RECURSIVE scanStringFrom(_, _)
scanStringFrom(s, from1) ==
  LET r == Scanner_rune(s)
      n == Scanner_Next(s)
  IN IF r = "\\" THEN
       (IF Scanner_rune(n) \notin {eof, "\n"} THEN scanStringFrom(Scanner_Next(n), from1)
        ELSE Scanner_errorf(Scanner_Next(n), from1, "unterminated quoted string"))
     ELSE IF r \in {eof, "\n"} THEN Scanner_errorf(n, from1, "unterminated quoted string")
     ELSE IF r = "\"" THEN [Scanner_emit(n, "String") EXCEPT !.state = "scanInsideTag"]
     ELSE scanStringFrom(n, from1)

scanString(s) == scanStringFrom(s, s.pos - 1)

\* The loops of scanNumberType and scanFractionOrExponent: the runes of a
\* set are consumed, and the first rune that is not of it is backed up.
RECURSIVE Scanner_while(_, _)
Scanner_while(s, valid) ==
  IF Scanner_rune(s) \in valid THEN Scanner_while(Scanner_Next(s), valid)
  ELSE Scanner_backup(Scanner_Next(s))

\* scanFractionOrExponent: the Scanner after it, the type and the flag.
scanFractionOrExponent(s) ==
  LET r == Scanner_rune(s)
      n == Scanner_Next(s)
      m == IF r = "e" /\ Scanner_rune(n) \in {"-", "+"} THEN Scanner_Next(n) ELSE n
      d == Scanner_while(m, sDecDigits)
  IN IF r \notin {".", "e"} THEN [s |-> n, t |-> "Error", ok |-> FALSE]
     ELSE IF d.pos = m.pos THEN [s |-> d, t |-> "Error", ok |-> FALSE]
     ELSE IF ~atNumberTerminator(d)
     THEN [s |-> Scanner_Peek(d), t |-> "Error", ok |-> FALSE]
     ELSE [s |-> Scanner_Peek(d), t |-> "Float", ok |-> TRUE]

\* scanNumberType: the Scanner after it, the type and the flag.
scanNumberType(s) ==
  LET r == Scanner_rune(s)
      n == Scanner_Next(s)
  IN IF r = "0" THEN
       (IF Scanner_rune(n) = "x" THEN
          LET h == Scanner_while(Scanner_Next(n), sHexDigits)
          IN IF ~atNumberTerminator(h) THEN [s |-> Scanner_Peek(h), t |-> "Error", ok |-> FALSE]
             ELSE [s |-> Scanner_Peek(h), t |-> "Int", ok |-> TRUE]
        ELSE scanFractionOrExponent(Scanner_backup(Scanner_Next(n))))
     ELSE
       LET d == Scanner_while(s, sDecDigits)
       IN IF Scanner_rune(d) \notin {".", "e"} THEN
            (IF ~atNumberTerminator(d) THEN [s |-> Scanner_Peek(d), t |-> "Error", ok |-> FALSE]
             ELSE [s |-> Scanner_Peek(d), t |-> "Int", ok |-> TRUE])
          ELSE scanFractionOrExponent(d)

\* The state function scanNumber of the Scanner.
Scanner_scanNumber(s) ==
  LET n == scanNumberType(s)
  IN IF ~n.ok THEN Scanner_errorf(n.s, s.pos, "bad number syntax")
     ELSE [Scanner_emit(n.s, n.t) EXCEPT !.state = "scanInsideTag"]

scanIdent(s) ==
  LET b == Scanner_while(s, sAlphaNum \cup {"_"})
      word == Slice(b.src, b.pin, b.pos)
  IN IF ~atIdentTerminator(b) THEN Scanner_errorf(Scanner_Peek(b), s.pos, "bad character")
     ELSE [Scanner_emit(Scanner_Peek(b),
                        IF word \in {<<"t", "r", "u", "e">>, <<"f", "a", "l", "s", "e">>}
                        THEN "Bool"
                        ELSE IF word = <<"n", "i", "l">> THEN "Nil"
                        ELSE IF word = <<"e", "n", "d">> THEN "End"
                        ELSE IF isTag(word) THEN "Tag"
                        ELSE IF isFunc(word) THEN "Func"
                        ELSE "Ident")
             EXCEPT !.state = "scanInsideTag"]

scanSymbol(s) ==
  LET r == Scanner_rune(s)
      n == Scanner_Next(s)
      n2 == Scanner_Next(n)
  IN IF r \in {".", ","}
     THEN [Scanner_emit(n, stringToType(<<r>>)) EXCEPT !.state = "scanInsideTag"]
     ELSE IF r = "&" THEN
       (IF Scanner_rune(n) # "&" THEN Scanner_errorf(n2, s.pos, "expected &&")
        ELSE [Scanner_emit(n2, "And") EXCEPT !.state = "scanInsideTag"])
     ELSE IF r = "|" THEN
       [(IF Scanner_rune(n) = "|" THEN Scanner_emit(n2, "Or")
         ELSE Scanner_emit(Scanner_backup(n2), "Pipe"))
          EXCEPT !.state = "scanInsideTag"]
     ELSE IF r \in {"*", "/", "%", "+", "-", "=", ":", "!", "<", ">"} THEN
       [(IF Scanner_rune(n) = "=" THEN Scanner_emit(n2, stringToType(<<r, "=">>))
         ELSE Scanner_emit(Scanner_backup(n2), stringToType(<<r>>)))
          EXCEPT !.state = "scanInsideTag"]
     ELSE IF r \in {"(", "{", "["}
     THEN [Scanner_emit(pushBrace(n, braces(r)), stringToType(<<r>>))
             EXCEPT !.state = "scanInsideTag"]
     ELSE IF r \in {")", "}", "]"} THEN
       (IF popBraceFails(n, r) THEN Scanner_errorf(n, s.pos, "unbalanced delimiters")
        ELSE [Scanner_emit(popBrace(n, r), stringToType(<<r>>))
                EXCEPT !.state = "scanInsideTag"])
     ELSE Scanner_errorf(n, s.pos, "unrecognized symbol")

\* s.state(s)
Scanner_state(s) ==
  CASE s.state = "scanRoot" -> scanRoot(s)
    [] s.state = "scanLeftDelim" -> scanLeftDelim(s)
    [] s.state = "scanRightDelim" -> scanRightDelim(s)
    [] s.state = "scanInsideTag" -> scanInsideTag(s)
    [] s.state = "scanString" -> scanString(s)
    [] s.state = "scanNumber" -> Scanner_scanNumber(s)
    [] s.state = "scanIdent" -> scanIdent(s)
    [] s.state = "scanSymbol" -> scanSymbol(s)

\* The sources: every sequence of at most MaxSource of these characters.
ScanAlphabet == {"{", "}", "a", "\"", "\\", "\n", "(", ")", "#"}
ScanInputs == UNION {[1..k -> ScanAlphabet] : k \in 0..MaxSource}

InitScan ==
  /\ OtherIdle
  /\ QueueIdle
  /\ \E source \in ScanInputs : scanner = newScanner(source)
  /\ delivered = <<>>

\* The goroutine of newScanner runs the next state function; it is held by
\* the channel while a token of the last one is still to be received.
ScannerRun ==
  /\ scanner.state \notin {"idle", "nil"}
  /\ scanner.sending = <<>>
  /\ scanner' = Scanner_state(scanner)
  /\ UNCHANGED <<compileVars, mergeVars, parseVars, queueVars, delivered, moreVars>>

\* The goroutine of newScanner closes the channel after the last state.
ScannerClose ==
  /\ scanner.state = "nil"
  /\ scanner.sending = <<>>
  /\ ~scanner.closed
  /\ scanner' = [scanner EXCEPT !.closed = TRUE]
  /\ UNCHANGED <<compileVars, mergeVars, parseVars, queueVars, delivered, moreVars>>

\* A NextToken that takes the oldest token of the stack.
NextTokenFIFO ==
  /\ scanner.state # "idle"
  /\ Len(delivered) < MaxNext
  /\ IF scanner.stack # <<>>
     THEN /\ delivered' = Append(delivered, [tok |-> Head(scanner.stack),
                                             from |-> "stack"])
          /\ scanner' = [scanner EXCEPT !.stack = Tail(@)]
     ELSE IF scanner.sending # <<>>
     THEN /\ delivered' = Append(delivered, [tok |-> Head(scanner.sending),
                                             from |-> "tokens"])
          /\ scanner' = [scanner EXCEPT !.sending = Tail(@)]
     ELSE /\ scanner.closed
          /\ delivered' = Append(delivered,
                                 [tok |-> [typ |-> "Error", pos |-> scanner.pos,
                                           val |-> "token stack is empty"],
                                  from |-> "closed"])
          /\ UNCHANGED scanner
  /\ UNCHANGED <<compileVars, mergeVars, parseVars, queueVars, moreVars>>

\* Scanner.NextToken: from the stack, from the channel, or the error token
\* of a closed channel; it waits while the channel has nothing to give.
NextToken ==
  /\ scanner.state # "idle"
  /\ Len(delivered) < MaxNext
  /\ IF scanner.stack # <<>>
     THEN /\ delivered' = Append(delivered, [tok |-> scanner.stack[Len(scanner.stack)],
                                             from |-> "stack"])
          /\ scanner' = [scanner EXCEPT !.stack = SubSeq(@, 1, Len(@) - 1)]
     ELSE IF scanner.sending # <<>>
     THEN /\ delivered' = Append(delivered, [tok |-> Head(scanner.sending),
                                             from |-> "tokens"])
          /\ scanner' = [scanner EXCEPT !.sending = Tail(@)]
     ELSE /\ scanner.closed
          /\ delivered' = Append(delivered,
                                 [tok |-> [typ |-> "Error", pos |-> scanner.pos,
                                           val |-> "token stack is empty"],
                                  from |-> "closed"])
          /\ UNCHANGED scanner
  /\ UNCHANGED <<compileVars, mergeVars, parseVars, queueVars, moreVars>>

\* Scanner.PushToken, of a token NextToken has returned.
PushToken ==
  /\ scanner.state # "idle"
  /\ Len(scanner.stack) + Cardinality({i \in 1..Len(delivered) :
                                         delivered[i].from = "stack"}) < MaxPush
  /\ \E i \in 1..Len(delivered) :
       scanner' = [scanner EXCEPT !.stack = Append(@, delivered[i].tok)]
  /\ UNCHANGED <<compileVars, mergeVars, parseVars, queueVars, delivered, moreVars>>

NextScan == ScannerRun \/ ScannerClose \/ NextToken \/ PushToken

SpecScan == InitScan /\ [][NextScan]_vars

\* Both lexers on the same tag that holds one literal.
InitNums ==
  /\ OtherIdle
  /\ \E w \in NumLiterals : /\ lexer = newLexer(InTag(w))
                            /\ scanner = newScanner(InTag(w))
  /\ returned = <<>>
  /\ delivered = <<>>

NextBoth == NextLex \/ NextScan

SpecNums == InitNums /\ [][NextBoth]_vars

\* Both lexers on the same input: an open tag, with or without an identifier,
\* then an opening quote and at most MaxQuoted of the characters of
\* QuoteAlphabet.
MaxQuoted == 4
QuoteAlphabet == {"a", "\"", "\\", "\n", "}"}
QuotePrefixes == {<<"{">>, <<"{", "a", " ">>}
QuoteInputs ==
  {p \o <<"\"">> \o w :
     p \in QuotePrefixes, w \in UNION {[1..k -> QuoteAlphabet] : k \in 0..MaxQuoted}}

InitQuotes ==
  /\ OtherIdle
  /\ \E in \in QuoteInputs : /\ lexer = newLexer(in)
                              /\ scanner = newScanner(in)
  /\ returned = <<>>
  /\ delivered = <<>>

SpecQuotes == InitQuotes /\ [][NextBoth]_vars

(***************************************************************************)
(* The contextual escaper over one text node (template/escape).  Only the  *)
(* test table of escapeText is part of the sources; the transitions below  *)
(* are those of the states section 4.4 of the specification names: text,   *)
(* tag, attribute name, after the name, before the value, attribute value  *)
(* by kind, RCDATA.  The transitions inside script and style content and   *)
(* inside comments are not modelled; no input of EscapeInputs reaches them *)
(* with text left to read.  A text is a sequence of one-byte characters.   *)
(***************************************************************************)
\* Bound on the text nodes one escaper is given.
MaxTexts == 2

Context(st, dl, up, js, at, el) ==
  [state |-> st, delim |-> dl, urlPart |-> up, jsCtx |-> js, attr |-> at,
   element |-> el]

\* context{}
context0 == Context("Text", "None", "None", "RegExp", "None", "None")

At(s, j) == s[j + 1]
Least(S) == CHOOSE x \in S : \A y \in S : x <= y
Greatest(S) == CHOOSE x \in S : \A y \in S : x >= y

UpperLetters ==
  <<"A", "B", "C", "D", "E", "F", "G", "H", "I", "J", "K", "L", "M",
    "N", "O", "P", "Q", "R", "S", "T", "U", "V", "W", "X", "Y", "Z">>
LowerLetters ==
  <<"a", "b", "c", "d", "e", "f", "g", "h", "i", "j", "k", "l", "m",
    "n", "o", "p", "q", "r", "s", "t", "u", "v", "w", "x", "y", "z">>

\* strings.ToLower
ToLower(s) ==
  [i \in 1..Len(s) |->
     IF \E k \in 1..26 : UpperLetters[k] = s[i]
     THEN LowerLetters[CHOOSE k \in 1..26 : UpperLetters[k] = s[i]]
     ELSE s[i]]

asciiAlpha(r) == r \in sAlphaLower \cup sAlphaUpper
asciiAlphaNum(r) == asciiAlpha(r) \/ r \in sDecDigits

\* bytes.IndexAny
IndexAny(s, chars) ==
  LET at == {i \in 0..(Len(s) - 1) : At(s, i) \in chars}
  IN IF at = {} THEN -1 ELSE Least(at)

\* html.UnescapeString, for the entities of the quotes.
Entities ==
  {[name |-> <<"&", "q", "u", "o", "t", ";">>, char |-> "\""],
   [name |-> <<"&", "#", "3", "4", ";">>, char |-> "\""],
   [name |-> <<"&", "a", "p", "o", "s", ";">>, char |-> "'"],
   [name |-> <<"&", "#", "3", "9", ";">>, char |-> "'"]}

RECURSIVE UnescapeString(_)
UnescapeString(s) ==
  IF s = <<>> THEN <<>>
  ELSE IF \E e \in Entities : HasPrefix(s, e.name)
  THEN LET e == CHOOSE e \in Entities : HasPrefix(s, e.name)
       IN <<e.char>> \o UnescapeString(SubSeq(s, Len(e.name) + 1, Len(s)))
  ELSE <<Head(s)>> \o UnescapeString(Tail(s))

\* eatWhiteSpace: the first index at or after i that holds no HTML space.
eatWhiteSpace(s, i) ==
  LET stop == {j \in i..(Len(s) - 1) : At(s, j) \notin {" ", "\t", "\n", "\r"}}
  IN IF stop = {} THEN Len(s) ELSE Least(stop)

\* eatAttrName: the end of the attribute name that starts at i, or -1 for
\* a quote or a "<" inside the name.
eatAttrName(s, i) ==
  LET stop == {j \in i..(Len(s) - 1) :
                 At(s, j) \in {" ", "\t", "\n", "\r", "=", ">", "'", "\"", "<"}}
  IN IF stop = {} THEN Len(s)
     ELSE IF At(s, Least(stop)) \in {"'", "\"", "<"} THEN -1
     ELSE Least(stop)

\* elementNameMap
elementNameMap(n) ==
  IF n = <<"s", "c", "r", "i", "p", "t">> THEN "Script"
  ELSE IF n = <<"s", "t", "y", "l", "e">> THEN "Style"
  ELSE IF n = <<"t", "e", "x", "t", "a", "r", "e", "a">> THEN "Textarea"
  ELSE IF n = <<"t", "i", "t", "l", "e">> THEN "Title"
  ELSE "None"

\* specialTagEndMarkers
specialTagEndMarkers(e) ==
  IF e = "Script" THEN <<"<", "/", "s", "c", "r", "i", "p", "t">>
  ELSE IF e = "Style" THEN <<"<", "/", "s", "t", "y", "l", "e">>
  ELSE IF e = "Textarea" THEN <<"<", "/", "t", "e", "x", "t", "a", "r", "e", "a">>
  ELSE <<"<", "/", "t", "i", "t", "l", "e">>

\* elementContentType
elementContentType(e) ==
  IF e = "Script" THEN "JS"
  ELSE IF e = "Style" THEN "CSS"
  ELSE IF e \in {"Textarea", "Title"} THEN "RCDATA"
  ELSE "Text"

\* eatTagName: the end of the tag name that starts at i, and its element.
RECURSIVE tagNameEnd(_, _)
tagNameEnd(s, j) ==
  IF j >= Len(s) THEN j
  ELSE IF asciiAlphaNum(At(s, j)) THEN tagNameEnd(s, j + 1)
  ELSE IF At(s, j) \in {":", "-"} /\ j + 1 < Len(s) /\ asciiAlphaNum(At(s, j + 1))
  THEN tagNameEnd(s, j + 2)
  ELSE j

eatTagName(s, i) ==
  IF i = Len(s) \/ ~asciiAlpha(At(s, i)) THEN [j |-> i, e |-> "None"]
  ELSE LET j == tagNameEnd(s, i + 1)
       IN [j |-> j, e |-> elementNameMap(ToLower(Slice(s, i, j)))]

\* attrTypeMap, the names the inputs use.
attrTypeMap ==
  {[name |-> <<"h", "r", "e", "f">>, type |-> "URL"],
   [name |-> <<"s", "r", "c">>, type |-> "URL"],
   [name |-> <<"x", "m", "l", "n", "s">>, type |-> "URL"],
   [name |-> <<"s", "t", "y", "l", "e">>, type |-> "CSS"],
   [name |-> <<"o", "n", "c", "l", "i", "c", "k">>, type |-> "JS"],
   [name |-> <<"a", "l", "t">>, type |-> "Plain"],
   [name |-> <<"c", "h", "e", "c", "k", "e", "d">>, type |-> "Plain"],
   [name |-> <<"n", "a", "m", "e">>, type |-> "Plain"],
   [name |-> <<"t", "i", "t", "l", "e">>, type |-> "Plain"],
   [name |-> <<"t", "y", "p", "e">>, type |-> "Plain"],
   [name |-> <<"v", "a", "l", "u", "e">>, type |-> "Plain"]}

\* attrType: the content type of the value of the attribute attrName.
\* The type of the attribute name short, what is left of a name once a
\* "data-" prefix or a namespace is cut off.
attrTypeShort(short) ==
  IF \E t \in attrTypeMap : t.name = short
  THEN (CHOOSE t \in attrTypeMap : t.name = short).type
  ELSE IF HasPrefix(short, <<"o", "n">>) THEN "JS"
  ELSE IF \/ Index(short, <<"s", "r", "c">>) # -1
          \/ Index(short, <<"u", "r", "i">>) # -1
          \/ Index(short, <<"u", "r", "l">>) # -1
  THEN "URL"
  ELSE "Plain"

\* attrType on the name in lower case, colon being the index of its colon.
attrTypeLower(lower, colon) ==
  IF HasPrefix(lower, <<"d", "a", "t", "a", "-">>)
  THEN attrTypeShort(SubSeq(lower, 6, Len(lower)))
  ELSE IF colon # -1
  THEN (IF Slice(lower, 0, colon) = <<"x", "m", "l", "n", "s">> THEN "URL"
        ELSE attrTypeShort(SubSeq(lower, colon + 2, Len(lower))))
  ELSE attrTypeShort(lower)

attrType(attrName) ==
  attrTypeLower(ToLower(attrName), Index(ToLower(attrName), <<":">>))

\* tText: the context after the text up to the next tag or comment.
RECURSIVE tTextFrom(_, _, _)
tTextFrom(c, s, k) ==
  LET at == Index(Slice(s, k, Len(s)), <<"<">>)
      i == k + at
  IN IF at = -1 \/ i + 1 = Len(s) THEN [c |-> c, n |-> Len(s)]
     ELSE IF i + 4 <= Len(s) /\ Slice(s, i, i + 4) = <<"<", "!", "-", "-">>
     THEN [c |-> [context0 EXCEPT !.state = "HTMLCmt"], n |-> i + 4]
     ELSE LET end == At(s, i + 1) = "/"
          IN IF end /\ i + 2 = Len(s) THEN [c |-> c, n |-> Len(s)]
             ELSE LET from == IF end THEN i + 2 ELSE i + 1
                      t == eatTagName(s, from)
                  IN IF t.j # from
                     THEN [c |-> [context0 EXCEPT
                                    !.state = "Tag",
                                    !.element = IF end THEN "None" ELSE t.e],
                           n |-> t.j]
                     ELSE tTextFrom(c, s, t.j)

tText(c, s) == tTextFrom(c, s, 0)

\* tTag: the context at the end of a tag or at the start of an attribute.
\* The attr of the context for an attribute of content type t.
attrOfType(t) ==
  IF t = "URL" THEN "URL"
  ELSE IF t = "CSS" THEN "Style"
  ELSE IF t = "JS" THEN "Script"
  ELSE "None"

\* tTag, the attribute name lying between i and j.
tTagAt(c, s, i, j) ==
  IF i = Len(s) THEN [c |-> c, n |-> Len(s)]
  ELSE IF At(s, i) = ">"
  THEN [c |-> [context0 EXCEPT !.state = elementContentType(c.element),
                               !.element = c.element],
        n |-> i + 1]
  ELSE IF j = -1 \/ i = j
  THEN [c |-> [context0 EXCEPT !.state = "Error"], n |-> Len(s)]
  ELSE [c |-> [context0 EXCEPT
                 !.state = IF j = Len(s) THEN "AttrName" ELSE "AfterName",
                 !.element = c.element,
                 !.attr = attrOfType(attrType(Slice(s, i, j)))],
        n |-> j]

tTagFrom(c, s, i) == tTagAt(c, s, i, eatAttrName(s, i))

tTag(c, s) == tTagFrom(c, s, eatWhiteSpace(s, 0))

\* tAttrName: the context at the end of an attribute name.
tAttrName(c, s) ==
  LET i == eatAttrName(s, 0)
  IN IF i = -1 THEN [c |-> [context0 EXCEPT !.state = "Error"], n |-> Len(s)]
     ELSE IF i # Len(s) THEN [c |-> [c EXCEPT !.state = "AfterName"], n |-> i]
     ELSE [c |-> c, n |-> i]

\* tAfterName: the context after an attribute name.
tAfterName(c, s) ==
  LET i == eatWhiteSpace(s, 0)
  IN IF i = Len(s) THEN [c |-> c, n |-> Len(s)]
     ELSE IF At(s, i) # "=" THEN [c |-> [c EXCEPT !.state = "Tag"], n |-> i]
     ELSE [c |-> [c EXCEPT !.state = "BeforeValue"], n |-> i + 1]

\* attrStartStates
attrStartStates(attr) ==
  IF attr = "Script" THEN "JS"
  ELSE IF attr = "Style" THEN "CSS"
  ELSE IF attr = "URL" THEN "URL"
  ELSE "Attr"

\* tBeforeValue: the context at the start of an attribute value.
tBeforeValue(c, s) ==
  LET i == eatWhiteSpace(s, 0)
  IN IF i = Len(s) THEN [c |-> c, n |-> Len(s)]
     ELSE LET delim == IF At(s, i) = "'" THEN "SingleQuote"
                       ELSE IF At(s, i) = "\"" THEN "DoubleQuote"
                       ELSE "SpaceOrTagEnd"
          IN [c |-> [c EXCEPT !.state = attrStartStates(c.attr),
                              !.delim = delim,
                              !.attr = "None"],
              n |-> IF delim = "SpaceOrTagEnd" THEN i ELSE i + 1]

\* tURL: the context after a part of a URL.
tURL(c, s) ==
  IF IndexAny(s, {"#", "?"}) >= 0
  THEN [c |-> [c EXCEPT !.urlPart = "QueryOrFrag"], n |-> Len(s)]
  ELSE IF Len(s) # eatWhiteSpace(s, 0) /\ c.urlPart = "None"
  THEN [c |-> [c EXCEPT !.urlPart = "PreQuery"], n |-> Len(s)]
  ELSE [c |-> c, n |-> Len(s)]

\* tSpecialTagEnd: the context at the end tag of a script, style, textarea
\* or title element.
tSpecialTagEnd(c, s) ==
  LET i == IF c.element = "None" THEN -1
           ELSE Index(ToLower(s), specialTagEndMarkers(c.element))
  IN IF i # -1 THEN [c |-> context0, n |-> i] ELSE [c |-> c, n |-> Len(s)]

\* transitionFunc[c.state](c, s); tAttr and tError read all of s and leave
\* the context alone.
transitionFunc(c, s) ==
  IF c.state = "Text" THEN tText(c, s)
  ELSE IF c.state = "Tag" THEN tTag(c, s)
  ELSE IF c.state = "AttrName" THEN tAttrName(c, s)
  ELSE IF c.state = "AfterName" THEN tAfterName(c, s)
  ELSE IF c.state = "BeforeValue" THEN tBeforeValue(c, s)
  ELSE IF c.state = "RCDATA" THEN tSpecialTagEnd(c, s)
  ELSE IF c.state = "URL" THEN tURL(c, s)
  ELSE IF c.state \in {"Attr", "Error"} THEN [c |-> c, n |-> Len(s)]
  ELSE [c |-> [c EXCEPT !.state = "NotModelled"], n |-> Len(s)]

\* delimEnds
delimEnds(delim) ==
  IF delim = "DoubleQuote" THEN {"\""}
  ELSE IF delim = "SingleQuote" THEN {"'"}
  ELSE {" ", "\t", "\n", "\r", ">"}

\* The loop of contextAfterText over the decoded rest of an attribute value.
RECURSIVE insideAttr(_, _)
insideAttrAfter(u, r) == insideAttr(r.c, SubSeq(u, r.n + 1, Len(u)))

insideAttr(c, u) ==
  IF u = <<>> THEN c ELSE insideAttrAfter(u, transitionFunc(c, u))

\* contextAfterText: the context after the next part of s, and its length.
\* The characters refused in an unquoted value are those of the code but for
\* the backquote; the HTML spaces are those of the code but for the form feed.
\* Outside an attribute value, e being what tSpecialTagEnd returned.
afterSpecialTagEnd(c, s, e) ==
  IF e.n = 0 THEN e ELSE transitionFunc(c, Slice(s, 0, e.n))

\* Inside an attribute value that ends at i, or does not end if i is Len(s).
insideValue(c, s, i) ==
  IF /\ c.delim = "SpaceOrTagEnd"
     /\ IndexAny(Slice(s, 0, i), {"\"", "'", "<", "="}) >= 0
  THEN [c |-> [context0 EXCEPT !.state = "Error"], n |-> Len(s)]
  ELSE IF i = Len(s)
  THEN [c |-> insideAttr(c, UnescapeString(s)), n |-> Len(s)]
  ELSE [c |-> [context0 EXCEPT !.state = "Tag", !.element = c.element],
        n |-> IF c.delim = "SpaceOrTagEnd" THEN i ELSE i + 1]

valueEnd(s, found) == IF found = -1 THEN Len(s) ELSE found

contextAfterText(c, s) ==
  IF c.delim = "None"
  THEN afterSpecialTagEnd(c, s, tSpecialTagEnd(c, s))
  ELSE insideValue(c, s, valueEnd(s, IndexAny(s, delimEnds(c.delim))))

\* The text with "&lt;" in the place of the "<" at the positions lts.
RECURSIVE WithLt(_, _, _)
WithLt(s, lts, j) ==
  IF j = Len(s) THEN <<>>
  ELSE (IF j \in lts THEN <<"&", "l", "t", ";">> ELSE <<At(s, j)>>)
       \o WithLt(s, lts, j + 1)

doctypeBytes == <<"<", "!", "d", "o", "c", "t", "y", "p", "e">>

\* The loop of escapeText: the context at the end of s and the positions of
\* the "<" that are text.
RECURSIVE escapeLoop(_, _, _, _)
\* The end of the text of a round of the loop from i to i1: the last "<"
\* in it when the context has changed, i1 otherwise.
textEnd(c, c1, open, i1) ==
  IF c1.state # c.state /\ open # {} THEN Greatest(open) ELSE i1

\* The "<" between i and end that are text and open no doctype.
textLts(c, s, i, end) ==
  IF c.state \in {"Text", "RCDATA"}
  THEN {j \in i..(end - 1) :
          /\ At(s, j) = "<"
          /\ ~HasPrefix(ToLower(Slice(s, j, Len(s))), doctypeBytes)}
  ELSE {}

\* One round of the loop, c1 and i1 being what contextAfterText returned.
escapeRound(c, s, i, lts, c1, i1) ==
  IF i = i1 /\ c.state = c1.state
  THEN [c |-> [c EXCEPT !.state = "panic"], lts |-> lts]
  ELSE escapeLoop(c1, s, i1,
         lts \cup textLts(c, s, i,
                    textEnd(c, c1, {j \in i..(i1 - 1) : At(s, j) = "<"}, i1)))

escapeAfter(c, s, i, lts, r) == escapeRound(c, s, i, lts, r.c, i + r.n)

escapeLoop(c, s, i, lts) ==
  IF i = Len(s) THEN [c |-> c, lts |-> lts]
  ELSE escapeAfter(c, s, i, lts, contextAfterText(c, Slice(s, i, Len(s))))

\* editTextNode applied at once: the node is rewritten during the call.
editTextNodeNow(e, n, t) == [e EXCEPT !.node = t]

\* editTextNode: the new text is kept aside until the escaper commits.
editTextNode(e, n, t) == [e EXCEPT !.edits = @ \cup {[node |-> n, text |-> t]}]

\* escapeText: the escaper after the call on its text node from c, with the
\* context returned.
\* The end of escapeText, r being the context and the "<" the loop found.
escapeTextEnd(e, r) ==
  [(IF r.lts # {} /\ r.c.state # "Error"
    THEN editTextNode(e, e.node, WithLt(e.node, r.lts, 0))
    ELSE e)
   EXCEPT !.state = "escaped", !.ctx = r.c]

escapeText(e, c) == escapeTextEnd(e, escapeLoop(c, e.node, 0, {}))

\* The rows of the table of TestEscapeText that stay in the modelled states.
TestEscapeText ==
  { [input |-> <<>>,
    output |-> Context("Text", "None", "None", "RegExp", "None", "None")],
   [input |-> <<"H", "e", "l", "l", "o", ",", " ", "W", "o", "r", "l", "d", "!">>,
    output |-> Context("Text", "None", "None", "RegExp", "None", "None")],
   [input |-> <<"I", " ", "<", "3", " ", "P", "o", "n", "i", "e", "s", "!">>,
    output |-> Context("Text", "None", "None", "RegExp", "None", "None")],
   [input |-> <<"<", "a">>,
    output |-> Context("Tag", "None", "None", "RegExp", "None", "None")],
   [input |-> <<"<", "a", " ">>,
    output |-> Context("Tag", "None", "None", "RegExp", "None", "None")],
   [input |-> <<"<", "a", ">">>,
    output |-> Context("Text", "None", "None", "RegExp", "None", "None")],
   [input |-> <<"<", "a", " ", "h", "r", "e", "f">>,
    output |-> Context("AttrName", "None", "None", "RegExp", "URL", "None")],
   [input |-> <<"<", "a", " ", "o", "n">>,
    output |-> Context("AttrName", "None", "None", "RegExp", "Script", "None")],
   [input |-> <<"<", "a", " ", "h", "r", "e", "f", " ">>,
    output |-> Context("AfterName", "None", "None", "RegExp", "URL", "None")],
   [input |-> <<"<", "a", " ", "s", "t", "y", "l", "e", " ", " ", "=", " ", " ">>,
    output |-> Context("BeforeValue", "None", "None", "RegExp", "Style", "None")],
   [input |-> <<"<", "a", " ", "h", "r", "e", "f", "=">>,
    output |-> Context("BeforeValue", "None", "None", "RegExp", "URL", "None")],
   [input |-> <<"<", "a", " ", "h", "r", "e", "f", "=", "x">>,
    output |-> Context("URL", "SpaceOrTagEnd", "PreQuery", "RegExp", "None", "None")],
   [input |-> <<"<", "a", " ", "h", "r", "e", "f", "=", "x", " ">>,
    output |-> Context("Tag", "None", "None", "RegExp", "None", "None")],
   [input |-> <<"<", "a", " ", "h", "r", "e", "f", "=", ">">>,
    output |-> Context("Text", "None", "None", "RegExp", "None", "None")],
   [input |-> <<"<", "a", " ", "h", "r", "e", "f", "=", "x", ">">>,
    output |-> Context("Text", "None", "None", "RegExp", "None", "None")],
   [input |-> <<"<", "a", " ", "h", "r", "e", "f", " ", "=", "'">>,
    output |-> Context("URL", "SingleQuote", "None", "RegExp", "None", "None")],
   [input |-> <<"<", "a", " ", "h", "r", "e", "f", "=", "'", "'">>,
    output |-> Context("Tag", "None", "None", "RegExp", "None", "None")],
   [input |-> <<"<", "a", " ", "h", "r", "e", "f", "=", " ", "\"">>,
    output |-> Context("URL", "DoubleQuote", "None", "RegExp", "None", "None")],
   [input |-> <<"<", "a", " ", "h", "r", "e", "f", "=", "\"", "\"">>,
    output |-> Context("Tag", "None", "None", "RegExp", "None", "None")],
   [input |-> <<"<", "a", " ", "t", "i", "t", "l", "e", "=", "\"">>,
    output |-> Context("Attr", "DoubleQuote", "None", "RegExp", "None", "None")],
   [input |-> <<"<", "a", " ", "H", "R", "E", "F", "=", "'", "h", "t", "t", "p", ":">>,
    output |-> Context("URL", "SingleQuote", "PreQuery", "RegExp", "None", "None")],
   [input |-> <<"<", "a", " ", "H", "r", "e", "f", "=", "'", "/">>,
    output |-> Context("URL", "SingleQuote", "PreQuery", "RegExp", "None", "None")],
   [input |-> <<"<", "a", " ", "h", "r", "e", "f", "=", "'", "\"">>,
    output |-> Context("URL", "SingleQuote", "PreQuery", "RegExp", "None", "None")],
   [input |-> <<"<", "a", " ", "h", "r", "e", "f", "=", "\"", "'">>,
    output |-> Context("URL", "DoubleQuote", "PreQuery", "RegExp", "None", "None")],
   [input |-> <<"<", "a", " ", "h", "r", "e", "f", "=", "'", "&", "a", "p", "o", "s", ";">>,
    output |-> Context("URL", "SingleQuote", "PreQuery", "RegExp", "None", "None")],
   [input |-> <<"<", "a", " ", "h", "r", "e", "f", "=", "\"", "&", "q", "u", "o", "t", ";">>,
    output |-> Context("URL", "DoubleQuote", "PreQuery", "RegExp", "None", "None")],
   [input |-> <<"<", "a", " ", "h", "r", "e", "f", "=", "\"", "&", "#", "3", "4", ";">>,
    output |-> Context("URL", "DoubleQuote", "PreQuery", "RegExp", "None", "None")],
   [input |-> <<"<", "a", " ", "h", "r", "e", "f", "=", "&", "q", "u", "o", "t", ";">>,
    output |-> Context("URL", "SpaceOrTagEnd", "PreQuery", "RegExp", "None", "None")],
   [input |-> <<"<", "i", "m", "g", " ", "a", "l", "t", "=", "\"", "1", "\"", ">">>,
    output |-> Context("Text", "None", "None", "RegExp", "None", "None")],
   [input |-> <<"<", "i", "m", "g", " ", "a", "l", "t", "=", "\"", "1", ">", "\"">>,
    output |-> Context("Tag", "None", "None", "RegExp", "None", "None")],
   [input |-> <<"<", "i", "m", "g", " ", "a", "l", "t", "=", "\"", "1", ">", "\"", ">">>,
    output |-> Context("Text", "None", "None", "RegExp", "None", "None")],
   [input |-> <<"<", "i", "n", "p", "u", "t", " ", "c", "h", "e", "c", "k", "e", "d", " ", "t", "y", "p", "e", "=", "\"", "c", "h", "e", "c", "k", "b", "o", "x", "\"">>,
    output |-> Context("Tag", "None", "None", "RegExp", "None", "None")],
   [input |-> <<"<", "a", " ", "o", "n", "c", "l", "i", "c", "k", "=", "\"">>,
    output |-> Context("JS", "DoubleQuote", "None", "RegExp", "None", "None")],
   [input |-> <<"<", "i", "n", "p", "u", "t", " ", "c", "h", "e", "c", "k", "e", "d", " ", "s", "t", "y", "l", "e", "=", "\"">>,
    output |-> Context("CSS", "DoubleQuote", "None", "RegExp", "None", "None")],
   [input |-> <<"<", "s", "c", "r", "i", "p", "t">>,
    output |-> Context("Tag", "None", "None", "RegExp", "None", "Script")],
   [input |-> <<"<", "s", "c", "r", "i", "p", "t", " ">>,
    output |-> Context("Tag", "None", "None", "RegExp", "None", "Script")],
   [input |-> <<"<", "s", "c", "r", "i", "p", "t", " ", "s", "r", "c", "=", "\"", "f", "o", "o", ".", "j", "s", "\"", " ">>,
    output |-> Context("Tag", "None", "None", "RegExp", "None", "Script")],
   [input |-> <<"<", "s", "c", "r", "i", "p", "t", " ", "s", "r", "c", "=", "'", "f", "o", "o", ".", "j", "s", "'", " ">>,
    output |-> Context("Tag", "None", "None", "RegExp", "None", "Script")],
   [input |-> <<"<", "s", "c", "r", "i", "p", "t", " ", "t", "y", "p", "e", "=", "t", "e", "x", "t", "/", "j", "a", "v", "a", "s", "c", "r", "i", "p", "t", " ">>,
    output |-> Context("Tag", "None", "None", "RegExp", "None", "Script")],
   [input |-> <<"<", "S", "c", "r", "i", "p", "t", ">">>,
    output |-> Context("JS", "None", "None", "RegExp", "None", "Script")],
   [input |-> <<"<", "t", "e", "x", "t", "a", "r", "e", "a", ">", "v", "a", "l", "u", "e">>,
    output |-> Context("RCDATA", "None", "None", "RegExp", "None", "Textarea")],
   [input |-> <<"<", "t", "e", "x", "t", "a", "r", "e", "a", ">", "v", "a", "l", "u", "e", "<", "/", "T", "E", "X", "T", "A", "R", "E", "A", ">">>,
    output |-> Context("Text", "None", "None", "RegExp", "None", "None")],
   [input |-> <<"<", "t", "e", "x", "t", "a", "r", "e", "a", " ", "n", "a", "m", "e", "=", "h", "t", "m", "l", ">", "<", "b">>,
    output |-> Context("RCDATA", "None", "None", "RegExp", "None", "Textarea")],
   [input |-> <<"<", "t", "i", "t", "l", "e", ">", "v", "a", "l", "u", "e">>,
    output |-> Context("RCDATA", "None", "None", "RegExp", "None", "Title")],
   [input |-> <<"<", "a", " ", "x", "l", "i", "n", "k", ":", "h", "r", "e", "f">>,
    output |-> Context("AttrName", "None", "None", "RegExp", "URL", "None")],
   [input |-> <<"<", "a", " ", "x", "m", "l", "n", "s">>,
    output |-> Context("AttrName", "None", "None", "RegExp", "URL", "None")],
   [input |-> <<"<", "a", " ", "x", "m", "l", "n", "s", ":", "f", "o", "o">>,
    output |-> Context("AttrName", "None", "None", "RegExp", "URL", "None")],
   [input |-> <<"<", "a", " ", "x", "m", "l", "n", "s", "x", "y", "z">>,
    output |-> Context("AttrName", "None", "None", "RegExp", "None", "None")],
   [input |-> <<"<", "a", " ", "d", "a", "t", "a", "-", "u", "r", "l">>,
    output |-> Context("AttrName", "None", "None", "RegExp", "URL", "None")],
   [input |-> <<"<", "a", " ", "d", "a", "t", "a", "-", "i", "c", "o", "n", "U", "r", "i">>,
    output |-> Context("AttrName", "None", "None", "RegExp", "URL", "None")],
   [input |-> <<"<", "a", " ", "d", "a", "t", "a", "-", "u", "r", "l", "I", "t", "e", "m">>,
    output |-> Context("AttrName", "None", "None", "RegExp", "URL", "None")],
   [input |-> <<"<", "a", " ", "g", ":">>,
    output |-> Context("AttrName", "None", "None", "RegExp", "None", "None")],
   [input |-> <<"<", "a", " ", "g", ":", "u", "r", "l">>,
    output |-> Context("AttrName", "None", "None", "RegExp", "URL", "None")],
   [input |-> <<"<", "a", " ", "g", ":", "i", "c", "o", "n", "U", "r", "i">>,
    output |-> Context("AttrName", "None", "None", "RegExp", "URL", "None")],
   [input |-> <<"<", "a", " ", "g", ":", "u", "r", "l", "I", "t", "e", "m">>,
    output |-> Context("AttrName", "None", "None", "RegExp", "URL", "None")],
   [input |-> <<"<", "a", " ", "g", ":", "v", "a", "l", "u", "e">>,
    output |-> Context("AttrName", "None", "None", "RegExp", "None", "None")],
   [input |-> <<"<", "a", " ", "s", "v", "g", ":", "s", "t", "y", "l", "e", "=", "'">>,
    output |-> Context("CSS", "SingleQuote", "None", "RegExp", "None", "None")],
   [input |-> <<"<", "s", "v", "g", ":", "f", "o", "n", "t", "-", "f", "a", "c", "e">>,
    output |-> Context("Tag", "None", "None", "RegExp", "None", "None")],
   [input |-> <<"<", "s", "v", "g", ":", "a", " ", "s", "v", "g", ":", "o", "n", "c", "l", "i", "c", "k", "=", "\"">>,
    output |-> Context("JS", "DoubleQuote", "None", "RegExp", "None", "None")]}

\* Every prefix of an input of the table.
EscapeInputs ==
  UNION {{SubSeq(t.input, 1, k) : k \in 0..Len(t.input)} : t \in TestEscapeText}

\* newEscaper(nil), and a text node for it.
newEscaper(s) ==
  [state |-> "ready", given |-> s, node |-> s, ctx |-> context0, edits |-> {},
   texts |-> 1]

InitEscaper ==
  /\ MergeIdle
  /\ ParseIdle
  /\ QueueIdle
  /\ ScanIdle
  /\ CloneIdle
  /\ PluralIdle
  /\ FifoIdle
  /\ treeSet = <<>>
  /\ treeSet0 = <<>>
  /\ cpc = "idle"
  /\ todo1 = {}
  /\ todo2 = {}
  /\ name = ""
  /\ deps = <<>>
  /\ names = <<>>
  /\ result = ""
  /\ steps = 0
  /\ \E s \in EscapeInputs : escaper = newEscaper(s)

\* e.escapeText(context{}, node)
EscapeText ==
  /\ escaper.state = "ready"
  /\ escaper' = escapeText(escaper, context0)
  /\ UNCHANGED <<compileVars, mergeVars, parseVars, queueVars, scanVars,
                 cloned, plural, queue, qhist>>

\* The same escaper is given another text node.
NextTextNode ==
  /\ escaper.state = "escaped"
  /\ escaper.texts < MaxTexts
  /\ \E s \in EscapeInputs :
       escaper' = [escaper EXCEPT !.state = "ready", !.given = s, !.node = s,
                                  !.texts = @ + 1]
  /\ UNCHANGED <<compileVars, mergeVars, parseVars, queueVars, scanVars,
                 cloned, plural, queue, qhist>>

NextEscaper == EscapeText \/ NextTextNode

SpecEscaper == InitEscaper /\ [][NextEscaper]_vars

(***************************************************************************)
(* Set.Clone.  A Set holds a reference to its map of templates; the maps   *)
(* live in a heap, a sequence of trees, and a reference is an index into   *)
(* it.  The set s holds the reference 1; the clone, once made, holds the   *)
(* reference c.                                                            *)
(***************************************************************************)
\* Bound on the calls made on the set and its clone.
MaxSetCalls == 4

\* Tree.CopyShallow
CopyShallow(t) == [k \in DOMAIN t |-> t[k]]

\* A Clone that hands its own map of templates to the new Set.
CloneSharing(h, o) == [heap |-> h, c |-> 1, err |-> "nil"]

\* Set.Clone: a new Set with a map of its own, to which every template of s
\* is added, the range visiting the names in the order o.
Clone(h, o) ==
  LET r == AddTree(<<>>, CopyShallow(h[1]), o, 1, <<>>)
  IN IF r.err # "nil" THEN [heap |-> h, c |-> 0, err |-> r.err]
     ELSE [heap |-> Append(h, r.tree), c |-> Len(h) + 1, err |-> "nil"]

\* The map of templates of a set.
TreeOf(cl, set) == cl.heap[IF set = "s" THEN 1 ELSE cl.c]

NoCall == [op |-> "", on |-> "", src |-> <<>>, res |-> "", before |-> <<>>]

InitClone ==
  /\ MergeIdle
  /\ ParseIdle
  /\ QueueIdle
  /\ ScanIdle
  /\ EscaperIdle
  /\ PluralIdle
  /\ FifoIdle
  /\ treeSet = <<>>
  /\ treeSet0 = <<>>
  /\ cpc = "idle"
  /\ todo1 = {}
  /\ todo2 = {}
  /\ name = ""
  /\ deps = <<>>
  /\ names = <<>>
  /\ result = ""
  /\ steps = 0
  /\ cloned = [state |-> "sets", heap |-> << <<>> >>, c |-> 0, atClone |-> <<>>,
               last |-> NoCall, calls |-> 0]

\* c, err := s.Clone()
SetClone ==
  /\ cloned.state = "sets"
  /\ cloned.c = 0
  /\ cloned.calls < MaxSetCalls
  /\ \E o \in Orders(DOMAIN cloned.heap[1]) :
       LET r == Clone(cloned.heap, o)
       IN cloned' = [cloned EXCEPT
                       !.heap = r.heap,
                       !.c = r.c,
                       !.atClone = cloned.heap[1],
                       !.last = [op |-> "Clone", on |-> "s", src |-> <<>>,
                                 res |-> r.err, before |-> cloned.heap],
                       !.calls = @ + 1]
  /\ UNCHANGED <<compileVars, mergeVars, parseVars, queueVars, scanVars,
                 escaper, plural, queue, qhist>>

\* set.Parse(text), on s or on its clone: parse.Parse(text, ...), then
\* set.Tree.AddTree(tree).
ParseOn ==
  /\ cloned.state = "sets"
  /\ cloned.calls < MaxSetCalls
  /\ \E set \in {"s", "c"} : \E src \in SourcesOf(FullDefs) :
       /\ set = "c" => cloned.c # 0
       /\ LET ref == IF set = "s" THEN 1 ELSE cloned.c
              p == ParseDefs(<<>>, src, 1)
          IN IF p.err # "nil"
             THEN cloned' = [cloned EXCEPT
                               !.last = [op |-> "Parse", on |-> set, src |-> src,
                                         res |-> p.err, before |-> cloned.heap],
                               !.calls = @ + 1]
             ELSE \E o \in Orders(DOMAIN p.tree) :
                    LET r == AddTree(cloned.heap[ref], p.tree, o, 1, <<>>)
                    IN cloned' = [cloned EXCEPT
                                    !.heap[ref] = r.tree,
                                    !.last = [op |-> "Parse", on |-> set,
                                              src |-> src, res |-> r.err,
                                              before |-> cloned.heap],
                                    !.calls = @ + 1]
  /\ UNCHANGED <<compileVars, mergeVars, parseVars, queueVars, scanVars,
                 escaper, plural, queue, qhist>>

NextClone == SetClone \/ ParseOn

SpecClone == InitClone /\ [][NextClone]_vars

(***************************************************************************)
(* gettext/pluralforms: the lexer and the precedence-climbing parser of    *)
(* Plural-Forms expressions, the evaluation of the parse tree and the      *)
(* PluralFunc that Parse returns.  An expression is a sequence of          *)
(* one-character strings.  The literals of the bounded inputs are far      *)
(* below the range of int, so strconv.ParseInt succeeds on every run of    *)
(* digits and the arithmetic does not wrap.                                *)
(***************************************************************************)
MaxExpr == 4
MaxArg == 2

numbers == {"0", "1", "2", "3", "4", "5", "6", "7", "8", "9"}
pluralSymbols == {"*", "/", "%", "+", "-", "=", "!", "<", ">", "|", "&", "?", ":"}

\* A token type is named by its entry in tokenName.
stringToToken ==
  (<<"*">> :> "*") @@ (<<"/">> :> "/") @@ (<<"%">> :> "%") @@
  (<<"+">> :> "+") @@ (<<"-">> :> "-") @@ (<<"=", "=">> :> "==") @@
  (<<"!", "=">> :> "!=") @@ (<<">">> :> ">") @@ (<<">", "=">> :> ">=") @@
  (<<"<">> :> "<") @@ (<<"<", "=">> :> "<=") @@ (<<"|", "|">> :> "||") @@
  (<<"&", "&">> :> "&&") @@ (<<"?">> :> "?") @@ (<<":">> :> ":") @@
  (<<"!">> :> "!") @@ (<<"(">> :> "(") @@ (<<")">> :> ")")

token(typ, val) == [typ |-> typ, val |-> val]

\* The position after the run of runes of valid that starts at p.
RECURSIVE nextRun(_, _, _)
nextRun(s, p, valid) ==
  IF p < Len(s) /\ At(s, p) \in valid THEN nextRun(s, p + 1, valid) ELSE p

\* lexer.next from position p: the token and the position after it.
RECURSIVE lexer_next(_, _)
lexer_next(s, p) ==
  IF p >= Len(s) THEN [tok |-> token("EOF", <<>>), at |-> p]
  ELSE
    LET r == At(s, p)
    IN CASE r = " " -> lexer_next(s, p + 1)
         [] r = "n" -> [tok |-> token("var", <<>>), at |-> p + 1]
         [] r \in {"*", "/", "%", "+", "-", "?", ":", "(", ")"} ->
              [tok |-> token(stringToToken[<<r>>], <<>>), at |-> p + 1]
         [] OTHER ->
              LET d == nextRun(s, p, numbers)
                  y == nextRun(s, p, pluralSymbols)
                  run == SubSeq(s, p + 1, y)
              IN IF d > p
                 THEN [tok |-> token("int", SubSeq(s, p + 1, d)), at |-> d]
                 ELSE IF y > p /\ run \in DOMAIN stringToToken
                 THEN [tok |-> token(stringToToken[run], <<>>), at |-> y]
                 ELSE [tok |-> token("error", <<"Invalid character", r>>),
                       at |-> y]

\* The tokens the stream hands out.  The parser never asks for a token
\* after EOF or after an error token that it has not pushed back, so the
\* stream is the tokens up to the first of these.
RECURSIVE tokensFrom(_, _)
tokensFrom(s, p) ==
  LET t == lexer_next(s, p)
  IN IF t.tok.typ \in {"EOF", "error"} THEN <<t.tok>>
     ELSE <<t.tok>> \o tokensFrom(s, t.at)

newTokenStream(expr) == tokensFrom(expr, 0)

\* The token pop returns when i - 1 tokens are consumed; push of the token
\* just popped steps i back by one.
tokenAt(ts, i) == ts[IF i < Len(ts) THEN i ELSE Len(ts)]

precedence(typ) ==
  CASE typ = "!" -> 6
    [] typ \in {"*", "/", "%"} -> 5
    [] typ \in {"+", "-"} -> 4
    [] typ \in {"==", "!=", ">", ">=", "<", "<="} -> 3
    [] typ = "||" -> 2
    [] typ = "&&" -> 1
    [] OTHER -> 0

isBinaryOp(t) ==
  t.typ \in {"*", "/", "%", "+", "-", "==", "!=", ">", ">=", "<", "<=",
             "||", "&&"}
isUnaryOp(t) == t.typ = "!"
isValue(t) == t.typ \in {"bool", "int", "var"}

intNode(v) == [kind |-> "int", v |-> v]
boolNode(v) == [kind |-> "bool", v |-> v]
varNode == [kind |-> "var"]
invalidExpression == [kind |-> "error"]
ifNode(cond, n1, n2) == [kind |-> "?", cond |-> cond, n1 |-> n1, n2 |-> n2]

DigitValue(d) ==
  CASE d = "0" -> 0 [] d = "1" -> 1 [] d = "2" -> 2 [] d = "3" -> 3
    [] d = "4" -> 4 [] d = "5" -> 5 [] d = "6" -> 6 [] d = "7" -> 7
    [] d = "8" -> 8 [] d = "9" -> 9

\* strconv.ParseInt(val, 10, 0) on a run of digits.
RECURSIVE ParseInt(_)
ParseInt(val) ==
  IF val = <<>> THEN 0
  ELSE 10 * ParseInt(SubSeq(val, 1, Len(val) - 1)) + DigitValue(val[Len(val)])

newBinaryOpNode(t, n1, n2) == [kind |-> t.typ, n1 |-> n1, n2 |-> n2]
newUnaryOpNode(t, n1) == [kind |-> "!", n1 |-> n1]
newValueNode(t) ==
  CASE t.typ = "bool" -> boolNode(FALSE)
    [] t.typ = "int" -> intNode(ParseInt(t.val))
    [] t.typ = "var" -> varNode

\* A parse step returns the node and the index of the next token, or has
\* panicked.
Panicked(msg) == [ok |-> FALSE, n |-> invalidExpression, i |-> 0, msg |-> msg]
ParsedTo(n, i) == [ok |-> TRUE, n |-> n, i |-> i, msg |-> ""]

RECURSIVE parseExpression(_, _, _)
RECURSIVE parsePrimary(_, _)
RECURSIVE parseTernary(_, _, _)
RECURSIVE climb(_, _, _, _)

parsePrimary(ts, i) ==
  LET t == tokenAt(ts, i)
  IN IF isUnaryOp(t)
     THEN LET r == parseExpression(ts, i + 1, precedence(t.typ))
          IN IF r.ok THEN ParsedTo(newUnaryOpNode(t, r.n), r.i) ELSE r
     ELSE IF t.typ = "("
     THEN LET r == parseExpression(ts, i + 1, 0)
          IN IF ~r.ok THEN r
             ELSE IF tokenAt(ts, r.i).typ = ")" THEN ParsedTo(r.n, r.i + 1)
             ELSE Panicked("Expected token")
     ELSE IF isValue(t) THEN ParsedTo(newValueNode(t), i + 1)
     ELSE Panicked("Unexpected token")

\* The loop of parseExpression, from the token at i with n parsed so far.
climb(ts, n, i, prec) ==
  LET t == tokenAt(ts, i)
      q == precedence(t.typ)
  IN IF ~isBinaryOp(t) \/ q < prec THEN ParsedTo(n, i)
     ELSE LET r == parseExpression(ts, i + 1, q + 1)
          IN IF ~r.ok THEN r
             ELSE climb(ts, newBinaryOpNode(t, n, r.n), r.i, prec)

parseExpression(ts, i, prec) ==
  LET p == parsePrimary(ts, i)
  IN IF ~p.ok THEN p
     ELSE LET c == climb(ts, p.n, p.i, prec)
          IN IF ~c.ok THEN c
             ELSE IF prec = 0 /\ tokenAt(ts, c.i).typ = "?"
             THEN parseTernary(ts, c.n, c.i)
             ELSE c

parseTernary(ts, n, i) ==
  IF tokenAt(ts, i).typ # "?" THEN ParsedTo(n, i)
  ELSE LET a == parseExpression(ts, i + 1, 0)
       IN IF ~a.ok THEN a
          ELSE IF tokenAt(ts, a.i).typ # ":" THEN Panicked("Expected token")
          ELSE LET b == parseExpression(ts, a.i + 1, 0)
               IN IF ~b.ok THEN b
                  ELSE parseTernary(ts, ifNode(n, a.n, b.n), b.i)

\* parse(expr): the parser recovers its own panics into err.
parse(expr) ==
  LET r == parseExpression(newTokenStream(expr), 1, 0)
  IN IF ~r.ok THEN [n |-> invalidExpression, err |-> r.msg]
     ELSE IF tokenAt(newTokenStream(expr), r.i).typ # "EOF"
     THEN [n |-> invalidExpression, err |-> "Expected token"]
     ELSE [n |-> r.n, err |-> "nil"]

\* Go's integer division truncates toward zero and the remainder has the
\* sign of the dividend.
Magnitude(x) == IF x < 0 THEN 0 - x ELSE x
Quo(x, y) ==
  IF (x < 0) = (y < 0) THEN Magnitude(x) \div Magnitude(y)
  ELSE 0 - (Magnitude(x) \div Magnitude(y))
Rem(x, y) == x - y * Quo(x, y)

\* A run-time panic inside Eval is not recovered by any node.
runtimePanic == [kind |-> "panic"]

RECURSIVE Eval(_, _)

\* Both operands must evaluate to intNode; the second is evaluated only
\* when the first has.
intOperands(n, ctx, f(_, _)) ==
  LET x == Eval(n.n1, ctx)
  IN IF x.kind = "panic" THEN x
     ELSE IF x.kind # "int" THEN invalidExpression
     ELSE LET y == Eval(n.n2, ctx)
          IN IF y.kind = "panic" THEN y
             ELSE IF y.kind # "int" THEN invalidExpression
             ELSE f(x.v, y.v)

boolOperands(n, ctx, f(_, _)) ==
  LET x == Eval(n.n1, ctx)
  IN IF x.kind = "panic" THEN x
     ELSE IF x.kind # "bool" THEN invalidExpression
     ELSE LET y == Eval(n.n2, ctx)
          IN IF y.kind = "panic" THEN y
             ELSE IF y.kind # "bool" THEN invalidExpression
             ELSE f(x.v, y.v)

\* eqNode and notEqNode: operands of one type, bool or int.
sameOperands(n, ctx, f(_, _)) ==
  LET x == Eval(n.n1, ctx)
  IN IF x.kind = "panic" THEN x
     ELSE IF x.kind \notin {"bool", "int"} THEN invalidExpression
     ELSE LET y == Eval(n.n2, ctx)
          IN IF y.kind = "panic" THEN y
             ELSE IF y.kind # x.kind THEN invalidExpression
             ELSE f(x.v, y.v)

\* x / y and x % y panic with "integer divide by zero" when y is 0.
divNodeEval(n, ctx) ==
  intOperands(n, ctx,
    LAMBDA x, y : IF y = 0 THEN runtimePanic ELSE intNode(Quo(x, y)))
modNodeEval(n, ctx) ==
  intOperands(n, ctx,
    LAMBDA x, y : IF y = 0 THEN runtimePanic ELSE intNode(Rem(x, y)))

Eval(n, ctx) ==
  CASE n.kind \in {"int", "bool", "error"} -> n
    [] n.kind = "var" -> intNode(ctx)
    [] n.kind = "!" ->
         LET x == Eval(n.n1, ctx)
         IN IF x.kind = "panic" THEN x
            ELSE IF x.kind = "bool" THEN boolNode(~x.v)
            ELSE invalidExpression
    [] n.kind = "*" -> intOperands(n, ctx, LAMBDA x, y : intNode(x * y))
    [] n.kind = "/" -> divNodeEval(n, ctx)
    [] n.kind = "%" -> modNodeEval(n, ctx)
    [] n.kind = "+" -> intOperands(n, ctx, LAMBDA x, y : intNode(x + y))
    [] n.kind = "-" -> intOperands(n, ctx, LAMBDA x, y : intNode(x - y))
    [] n.kind = "==" -> sameOperands(n, ctx, LAMBDA x, y : boolNode(x = y))
    [] n.kind = "!=" -> sameOperands(n, ctx, LAMBDA x, y : boolNode(x # y))
    [] n.kind = ">" -> intOperands(n, ctx, LAMBDA x, y : boolNode(x > y))
    [] n.kind = ">=" -> intOperands(n, ctx, LAMBDA x, y : boolNode(x >= y))
    [] n.kind = "<" -> intOperands(n, ctx, LAMBDA x, y : boolNode(x < y))
    [] n.kind = "<=" -> intOperands(n, ctx, LAMBDA x, y : boolNode(x <= y))
    [] n.kind = "||" -> boolOperands(n, ctx, LAMBDA x, y : boolNode(x \/ y))
    [] n.kind = "&&" -> boolOperands(n, ctx, LAMBDA x, y : boolNode(x /\ y))
    [] n.kind = "?" ->
         LET x == Eval(n.cond, ctx)
         IN IF x.kind = "panic" THEN x
            ELSE IF x.kind # "bool" THEN invalidExpression
            ELSE IF x.v THEN Eval(n.n1, ctx) ELSE Eval(n.n2, ctx)

pluralFuncKeys ==
  <<<<"0">>,
    <<"n", "!", "=", "1">>,
    <<"n", ">", "1">>,
    <<"n", "%", "1", "0", "=", "=", "1", "&", "&", "n", "%", "1", "0", "0", "!", "=", "1", "1", "?", "0", ":", "n", "!", "=", "0", "?", "1", ":", "2">>,
    <<"n", "=", "=", "1", "?", "0", ":", "n", "=", "=", "2", "?", "1", ":", "2">>,
    <<"n", "=", "=", "1", "?", "0", ":", "(", "n", "=", "=", "0", "|", "|", "(", "n", "%", "1", "0", "0", ">", "0", "&", "&", "n", "%", "1", "0", "0", "<", "2", "0", ")", ")", "?", "1", ":", "2">>,
    <<"n", "%", "1", "0", "=", "=", "1", "&", "&", "n", "%", "1", "0", "0", "!", "=", "1", "1", "?", "0", ":", "n", "%", "1", "0", ">", "=", "2", "&", "&", "(", "n", "%", "1", "0", "0", "<", "1", "0", "|", "|", "n", "%", "1", "0", "0", ">", "=", "2", "0", ")", "?", "1", ":", "2">>,
    <<"n", "%", "1", "0", "=", "=", "1", "&", "&", "n", "%", "1", "0", "0", "!", "=", "1", "1", "?", "0", ":", "n", "%", "1", "0", ">", "=", "2", "&", "&", "n", "%", "1", "0", "<", "=", "4", "&", "&", "(", "n", "%", "1", "0", "0", "<", "1", "0", "|", "|", "n", "%", "1", "0", "0", ">", "=", "2", "0", ")", "?", "1", ":", "2">>,
    <<"(", "n", "=", "=", "1", ")", "?", "0", ":", "(", "n", ">", "=", "2", "&", "&", "n", "<", "=", "4", ")", "?", "1", ":", "2">>,
    <<"n", "=", "=", "1", "?", "0", ":", "n", "%", "1", "0", ">", "=", "2", "&", "&", "n", "%", "1", "0", "<", "=", "4", "&", "&", "(", "n", "%", "1", "0", "0", "<", "1", "0", "|", "|", "n", "%", "1", "0", "0", ">", "=", "2", "0", ")", "?", "1", ":", "2">>,
    <<"n", "%", "1", "0", "0", "=", "=", "1", "?", "0", ":", "n", "%", "1", "0", "0", "=", "=", "2", "?", "1", ":", "n", "%", "1", "0", "0", "=", "=", "3", "|", "|", "n", "%", "1", "0", "0", "=", "=", "4", "?", "2", ":", "3">>>>

ExampleExprs ==
  {<<"n", "=", "=", "1", " ", "?", " ", "0", " ", ":", " ", "1">>,
   <<"n", " ", "?", " ", "0", " ", ":", " ", "1">>,
   <<"n", ">", "1", " ", "?", " ", "2", "/", "n", " ", ":", " ", "1", "%", "0">>,
   <<"(", "n", "=", "=", "2", ")", "?", "n", ":", "1", "/", "(", "n", "-", "1", ")">>,
   <<"!", "(", "n", ">", "=", "1", ")", " ", "|", "|", " ", "n", "<", "=", "2", " ", "&", "&", " ", "n", "!", "=", "0">>,
   <<"n", "=", "=", "0", "?", "1", ":", "n", "=", "=", "1", "?", "2", ":", "n", "*", "3", "+", "1">>}

\* pluralFunc1 .. pluralFunc11, by their position in pluralFuncs.
precomputed(k, n) ==
  LET m10 == Rem(n, 10)
      m100 == Rem(n, 100)
  IN CASE k = 1 -> 0
       [] k = 2 -> IF n = 1 THEN 0 ELSE 1
       [] k = 3 -> IF n > 1 THEN 1 ELSE 0
       [] k = 4 -> IF m10 = 1 /\ m100 # 11 THEN 0
                   ELSE IF n # 0 THEN 1 ELSE 2
       [] k = 5 -> IF n = 1 THEN 0 ELSE IF n = 2 THEN 1 ELSE 2
       [] k = 6 -> IF n = 1 THEN 0
                   ELSE IF n = 0 \/ (m100 > 0 /\ m100 < 20) THEN 1 ELSE 2
       [] k = 7 -> IF m10 = 1 /\ m100 # 11 THEN 0
                   ELSE IF m10 >= 2 /\ (m100 < 10 \/ m100 >= 20) THEN 1
                   ELSE 2
       [] k = 8 -> IF m10 = 1 /\ m100 # 11 THEN 0
                   ELSE IF m10 >= 2 /\ m10 <= 4 /\ (m100 < 10 \/ m100 >= 20)
                   THEN 1 ELSE 2
       [] k = 9 -> IF n = 1 THEN 0 ELSE IF n >= 2 /\ n <= 4 THEN 1 ELSE 2
       [] k = 10 -> IF n = 1 THEN 0
                    ELSE IF m10 >= 2 /\ m10 <= 4 /\ (m100 < 10 \/ m100 >= 20)
                    THEN 1 ELSE 2
       [] k = 11 -> IF m100 = 1 THEN 0
                    ELSE IF m100 = 2 THEN 1
                    ELSE IF m100 = 3 \/ m100 = 4 THEN 2 ELSE 3

\* The PluralFunc values: a precomputed function or the closure of
\* createPluralFunc over a parse tree.
createPluralFunc(expr) ==
  LET r == parse(expr)
  IN IF r.err # "nil" THEN [f |-> [kind |-> "nil"], err |-> r.err]
     ELSE [f |-> [kind |-> "closure", tree |-> r.n], err |-> "nil"]

Parse(expr0) ==
  LET expr == SelectSeq(expr0, LAMBDA c : c # " ")
      hit == {k \in DOMAIN pluralFuncKeys : pluralFuncKeys[k] = expr}
  IN IF hit # {}
     THEN [f |-> [kind |-> "precomputed", k |-> Least(hit)], err |-> "nil"]
     ELSE createPluralFunc(expr)

\* The outcome of calling a PluralFunc: the index it returns, or a panic
\* that reaches the caller.
Returns(v) == [panics |-> FALSE, value |-> v]
PanicsOut == [panics |-> TRUE, value |-> 0]

Call(f, n) ==
  IF f.kind = "precomputed" THEN Returns(precomputed(f.k, n))
  ELSE LET v == Eval(f.tree, n)
       IN CASE v.kind = "panic" -> PanicsOut
            [] v.kind = "int" -> Returns(v.v)
            [] v.kind = "bool" -> Returns(IF v.v THEN 1 ELSE 0)
            [] OTHER -> Returns(-1)

PluralAlphabet == {"n", "0", "1", "/", "%", "=", "!", ">", " "}

RECURSIVE ExprsOfLen(_)
ExprsOfLen(k) ==
  IF k = 0 THEN {<<>>}
  ELSE {Append(s, c) : s \in ExprsOfLen(k - 1), c \in PluralAlphabet}

PluralInputs == UNION {ExprsOfLen(k) : k \in 0..MaxExpr} \cup ExampleExprs
PluralArgs == (0 - MaxArg)..MaxArg

NotCalled == [called |-> FALSE, n |-> 0, out |-> Returns(0)]

InitPlural ==
  /\ MergeIdle
  /\ ParseIdle
  /\ QueueIdle
  /\ ScanIdle
  /\ EscaperIdle
  /\ CloneIdle
  /\ FifoIdle
  /\ treeSet = <<>>
  /\ treeSet0 = <<>>
  /\ cpc = "idle"
  /\ todo1 = {}
  /\ todo2 = {}
  /\ name = ""
  /\ deps = <<>>
  /\ names = <<>>
  /\ result = ""
  /\ steps = 0
  /\ plural = [state |-> "start"]

\* f, err := pluralforms.Parse(expr)
PluralParse ==
  /\ plural.state = "start"
  /\ \E expr \in PluralInputs :
       LET r == Parse(expr)
       IN plural' = [state |-> "parsed", expr |-> expr, f |-> r.f,
                     err |-> r.err, last |-> NotCalled]
  /\ UNCHANGED <<compileVars, mergeVars, parseVars, queueVars, scanVars,
                 escaper, cloned, queue, qhist>>

\* f(n), on a PluralFunc that Parse returned without error
PluralCall ==
  /\ plural.state = "parsed"
  /\ plural.err = "nil"
  /\ \E n \in PluralArgs :
       plural' = [plural EXCEPT
                    !.last = [called |-> TRUE, n |-> n,
                              out |-> Call(plural.f, n)]]
  /\ UNCHANGED <<compileVars, mergeVars, parseVars, queueVars, scanVars,
                 escaper, cloned, queue, qhist>>

NextPlural == PluralParse \/ PluralCall

SpecPlural == InitPlural /\ [][NextPlural]_vars

(***************************************************************************)
(* What the claims speak of.                                               *)
(***************************************************************************)
\* A body with block and list wrappers spliced into their place: the
\* sequence of text and if nodes that is executed.
RECURSIVE Flat(_)
Flat(nodes) ==
  IF nodes = <<>> THEN <<>>
  ELSE LET n == Head(nodes)
           rest == Flat(Tail(nodes))
       IN IF n.kind \in {"block", "list"} THEN Flat(n.list) \o rest
          ELSE IF n.kind = "if" THEN
            <<IF n.hasElse THEN IfNode(Flat(n.list), Flat(n.elseList))
              ELSE IfNodeNoElse(Flat(n.list))>> \o rest
          ELSE <<n>> \o rest

\* The texts of a body in order (both branches of an if).
RECURSIVE Render(_)
Render(nodes) ==
  IF nodes = <<>> THEN <<>>
  ELSE LET n == Head(nodes)
       IN (IF n.kind = "text" THEN <<n.text>>
           ELSE Render(n.list) \o Render(n.elseList)) \o Render(Tail(nodes))

\* Whether a body holds a block node at any depth.
RECURSIVE HasBlock(_)
HasBlock(nodes) ==
  \E i \in 1..Len(nodes) :
    \/ nodes[i].kind = "block"
    \/ HasBlock(nodes[i].list)
    \/ HasBlock(nodes[i].elseList)

\* Whether a body holds an if/range/with node without else at any depth.
RECURSIVE HasNoElse(_)
HasNoElse(nodes) ==
  \E i \in 1..Len(nodes) :
    \/ nodes[i].kind = "if" /\ ~nodes[i].hasElse
    \/ HasNoElse(nodes[i].list)
    \/ HasNoElse(nodes[i].elseList)

\* Where the parent walk that starts at n ends in the define set ts:
\* "root", "missing" or "cycle".
RECURSIVE WalkEnd(_, _, _)
WalkEnd(ts, n, seen) ==
  IF n \notin DOMAIN ts THEN "missing"
  ELSE IF ts[n].parent = "" THEN "root"
  ELSE IF n \in seen THEN "cycle"
  ELSE WalkEnd(ts, ts[n].parent, seen \cup {n})

HasCycle(ts) == \E n \in DOMAIN ts : WalkEnd(ts, n, {}) = "cycle"
HasMissing(ts) == \E n \in DOMAIN ts : WalkEnd(ts, n, {}) = "missing"
AnyNoElse(ts) == \E n \in DOMAIN ts : HasNoElse(ts[n].list)

\* The ancestor chain of n, from n itself to its root ancestor.
RECURSIVE Chain(_, _)
Chain(ts, n) ==
  IF ts[n].parent = "" THEN <<n>> ELSE <<n>> \o Chain(ts, ts[n].parent)

\* The body the claim describes for the template chain[1]: in a body that
\* comes from chain[lvl], a block takes the content of the block of its name
\* in the nearest template chain[i], i < lvl, that defines one, and its own
\* content when there is none.
Min(S) == CHOOSE x \in S : \A y \in S : x <= y

RECURSIVE Nearest(_, _, _, _)
Nearest(nodes, lvl, chain, ts) ==
  IF nodes = <<>> THEN <<>>
  ELSE
    LET n == Head(nodes)
        rest == Nearest(Tail(nodes), lvl, chain, ts)
    IN IF n.kind = "block" THEN
         LET definers == {i \in 1..(lvl - 1) :
                            n.name \in DOMAIN extractBlocks(ts[chain[i]].list).m}
         IN IF definers = {} THEN Nearest(n.list, lvl, chain, ts) \o rest
            ELSE LET i == Min(definers)
                     body == ts[chain[i]].list
                     b == NodeAt(body, extractBlocks(body).m[n.name])
                 IN Nearest(b.list, i, chain, ts) \o rest
       ELSE IF n.kind = "if" THEN
         <<IfNode(Nearest(n.list, lvl, chain, ts),
                  Nearest(n.elseList, lvl, chain, ts))>> \o rest
       ELSE IF n.kind = "list" THEN Nearest(n.list, lvl, chain, ts) \o rest
       ELSE <<n>> \o rest

NearestBody(ts, n) ==
  LET chain == Chain(ts, n)
  IN Nearest(ts[chain[Len(chain)]].list, Len(chain), chain, ts)

Returned == cpc = "done"

\* C1: after Compile succeeds every template has the body of its root
\* ancestor in which each block holds the content of the nearest template of
\* the chain that defines a block of that name (its own default otherwise),
\* and the templates of the TestBlock fixture render as the test expects.
C1_NearestOverride ==
  (Returned /\ result = "nil") =>
    /\ \A n \in DOMAIN treeSet :
         Flat(treeSet[n].list) = NearestBody(treeSet0, n)
    /\ treeSet0 = Fixture =>
         /\ Render(treeSet["t1"].list) = <<"foo-", "t1b1-", "bar">>
         /\ Render(treeSet["t2"].list) = <<"foo-", "t2b1-", "t2b2-", "bar">>
         /\ Render(treeSet["t3"].list) = <<"foo-", "t2b1-", "t3b2-", "bar">>
         /\ Render(treeSet["t4"].list) = <<"foo-", "t2b1-", "t4b2-", "bar">>

\* C2 as stated: whenever the parent relation has a cycle, what Compile
\* returns is the 'impossible recursion' error.
C2_CycleAlwaysRecursion ==
  (Returned /\ HasCycle(treeSet0)) => result = "impossible recursion"

\* The number of steps Compile can still take, at most.
CompileMeasure ==
  LET N == Cardinality(DOMAIN treeSet0)
      perVisit == 2 * N + 4
  IN IF cpc = "done" THEN 0
     ELSE IF cpc = "loop2" THEN Cardinality(todo2) + 1
     ELSE (N + 2) + Cardinality(todo1) * perVisit +
          (IF cpc = "walk" THEN (N + 1 - Len(deps)) + N + 2
           ELSE IF cpc = "inline" THEN Len(names) + 1
           ELSE 0)

\* CompileMeasure in the initial state.
CompileBudget ==
  LET N == Cardinality(DOMAIN treeSet0)
  IN (N + 2) + N * (2 * N + 4)

\* Compile has returned or can take a step: the loops and the inlining always
\* have a step, and the walk has one unless every branch of its loop body is
\* closed.
CanStep ==
  \/ Returned
  \/ cpc \in {"loop1", "inline", "loop2"}
  \/ cpc = "walk" /\ (\/ ENABLED WalkNotFound
                      \/ ENABLED WalkBreak
                      \/ ENABLED WalkRecursion
                      \/ ENABLED WalkStep)

\* C2 as amended: on a define set with a cycle Compile always comes to an end
\* (the steps taken and the steps still possible never exceed a budget fixed
\* by the size of the set, and Compile is never stuck before it returns) and
\* never returns nil; it ends with 'impossible recursion', or with 'template
\* not found' when the set also has a missing parent, or with the nil-ElseList
\* panic when the set also has a branch without else.
C2_CycleEndsInFailure ==
  /\ CompileMeasure >= 0
  /\ steps + CompileMeasure <= CompileBudget
  /\ CanStep
  /\ (Returned /\ HasCycle(treeSet0)) =>
        \/ result = "impossible recursion"
        \/ result = "template not found" /\ HasMissing(treeSet0)
        \/ result = "panic: nil ElseList" /\ AnyNoElse(treeSet0)

\* A walk that met a cycle which does not contain the template it started at.
C2_CycleBeyondStart ==
  /\ Returned
  /\ result = "impossible recursion"
  /\ Len(deps) > 1
  /\ name # deps[1]

\* C3 as stated: whenever some template's chain names a parent that is no
\* key, what Compile returns is the 'template not found' error.
C3_MissingAlwaysNotFound ==
  (Returned /\ HasMissing(treeSet0)) => result = "template not found"

\* C3 as amended: Compile never dereferences a missing entry, and on a define
\* set with a missing parent it never returns nil: it ends with 'template not
\* found', or with 'impossible recursion' when the set also has a cycle, or
\* with the nil-ElseList panic when the set also has a branch without else.
C3_MissingEndsInFailure ==
  /\ result # "panic: nil dereference"
  /\ (Returned /\ HasMissing(treeSet0)) =>
        \/ result = "template not found"
        \/ result = "impossible recursion" /\ HasCycle(treeSet0)
        \/ result = "panic: nil ElseList" /\ AnyNoElse(treeSet0)

\* A missing parent found further up the chain, after a template was inlined.
C3_MissingUpTheChain ==
  /\ Returned
  /\ result = "template not found"
  /\ Len(deps) > 1

(***************************************************************************)
(* Compile with the keys visited in the order of VisitOrder, as a function *)
(* of the define set: the reference the other orders are compared with.    *)
(***************************************************************************)
VisitOrder == <<"t1", "t2", "t3", "t4">>

RECURSIVE InlineChain(_, _)
InlineChain(ts, chain) ==
  IF chain = <<>> THEN [panic |-> "", ts |-> ts]
  ELSE LET r == inlineParent(ts, chain[Len(chain)])
       IN IF r.panic # "" THEN r
          ELSE InlineChain(r.ts, SubSeq(chain, 1, Len(chain) - 1))

RECURSIVE OrderedLoop1(_, _)
OrderedLoop1(ts, i) ==
  IF i > Len(VisitOrder) THEN [result |-> "nil", ts |-> ts]
  ELSE IF VisitOrder[i] \notin DOMAIN ts THEN OrderedLoop1(ts, i + 1)
  ELSE
    LET end == WalkEnd(ts, VisitOrder[i], {})
    IN IF end = "missing" THEN [result |-> "template not found", ts |-> ts]
       ELSE IF end = "cycle" THEN [result |-> "impossible recursion", ts |-> ts]
       ELSE LET chain == Chain(ts, VisitOrder[i])
                r == InlineChain(ts, SubSeq(chain, 1, Len(chain) - 1))
            IN IF r.panic # "" THEN [result |-> "panic: " \o r.panic, ts |-> r.ts]
               ELSE OrderedLoop1(r.ts, i + 1)

OrderedCompile(ts) ==
  LET r1 == OrderedLoop1(ts, 1)
  IN IF r1.result # "nil" THEN r1
     ELSE LET rs == [n \in DOMAIN r1.ts |-> inlineBlocks(r1.ts[n].list)]
          IN IF \E n \in DOMAIN rs : rs[n].panic
             THEN [result |-> "panic: nil ElseList", ts |-> r1.ts]
             ELSE [result |-> "nil",
                   ts |-> [n \in DOMAIN r1.ts |->
                             DefineNode(r1.ts[n].parent, rs[n].l)]]

\* Whether Compile returned nil, returned an error, or did not return.
Outcome(res) ==
  IF res = "nil" THEN "success"
  ELSE IF res \in {"template not found", "impossible recursion"} THEN "error"
  ELSE "panic"

\* C4: in whatever order the loops of Compile visit the templates, the
\* outcome (success or error) and, on success, every resolved body are the
\* ones obtained in the order t1, t2, t3, t4.
C4_OrderIndependent ==
  Returned =>
    LET ref == OrderedCompile(treeSet0)
    IN /\ Outcome(result) = Outcome(ref.result)
       /\ result = "nil" => treeSet = ref.ts

\* C5: after Compile returns nil no body holds a block node at any depth.
C5_NoBlockLeft ==
  (Returned /\ result = "nil") =>
    \A n \in DOMAIN treeSet : ~HasBlock(treeSet[n].list)

\* Compile returned nil on a set with a block inside an if branch and a block
\* inside the content of a block.
C5_NestedBlocksInlined ==
  /\ Returned
  /\ result = "nil"
  /\ \E a, b \in DOMAIN treeSet0 :
       /\ treeSet0[a].list = BodyBranch
       /\ treeSet0[b].list = BodyT2
       /\ treeSet0[b].parent = a

\* C6: when Compile returns an error every entry of the define set is what it
\* was before the call.
C6_ErrorLeavesSetUnchanged ==
  (Returned /\ Outcome(result) = "error") => treeSet = treeSet0

(***************************************************************************)
(* Merging: what the claims speak of.                                      *)
(***************************************************************************)
\* The names of the definitions of h, and the first definition of h under n.
NamesOf(h) == {h[i].name : i \in 1..Len(h)}
FirstDef(h, n) == h[Min({i \in 1..Len(h) : h[i].name = n})]
FirstMap(h) == [n \in NamesOf(h) |-> FirstDef(h, n)]

\* Whether a source defines a name twice.
HasRepeat(src) ==
  \E i, j \in 1..Len(src) : i < j /\ src[i].name = src[j].name

\* Whether a call that visited the definitions tr on the set b met a name
\* that was present already.
DupAttempt(b, tr) ==
  \E i \in 1..Len(tr) :
    \/ tr[i].name \in DOMAIN b
    \/ \E j \in 1..(i - 1) : tr[j].name = tr[i].name

NonEmpty(h) == SelectSeq(h, LAMBDA d : ~d.empty)

\* The part of C7 that is about Tree.Add, Tree.AddTree and Set.parse: every
\* name maps to the first definition Add was called with under that name, a
\* call returns the duplicated-template error exactly when it met a name that
\* was present, and a source that defines a name twice is refused whole.
TreeKeepsFirst ==
  /\ tree = FirstMap(hist)
  /\ mop \in {"Add", "AddTree"} =>
       (mres = "duplicated template" <=> DupAttempt(before, tried))
  /\ mop = "Parse" =>
       IF HasRepeat(msrc)
       THEN mres = "duplicated template" /\ tree = before
       ELSE mres = "duplicated template" <=> DupAttempt(before, tried)

C8_NoPanicLeavesParse == pres # "panic"

\* C9: Parse comes to an end: once the parser has consumed the terminal token
\* of the lexer, EOF or Error, Parse has returned.
C9_ReturnsAtTerminalToken ==
  (pres # "lexing" /\ pos > Len(input)) => pres # "running"

\* C10: Parse returns nil only when the top-level loop met nothing but
\* definitions and text that is whitespace.
C10_TopLevelOnlyDefines ==
  pres = "nil" => \A i \in 1..Len(skipped) : skipped[i] = "Space"

\* The scopes open after the chunks of a source up to the i-th, innermost
\* last: {{define}}, {{fill}}, {{block}} and {{if}} open one, {{end}} closes
\* the innermost.
RECURSIVE ScopesAt(_, _)
ScopesAt(src, i) ==
  IF i = 0 THEN <<>>
  ELSE LET st == ScopesAt(src, i - 1)
           c == src[i]
       IN IF c \in {"DEF", "FILL", "BLOCK", "IF"} THEN Append(st, c)
          ELSE IF c = "END" /\ st # <<>> THEN SubSeq(st, 1, Len(st) - 1)
          ELSE st

\* Whether the scopes st hold a fill with no block opened inside it.
InBareFill(st) ==
  \E k \in 1..Len(st) :
    /\ st[k] = "FILL"
    /\ \A m \in (k + 1)..Len(st) : st[m] # "BLOCK"

\* Whether a source holds a fill whose body holds, directly or inside if
\* branches but not inside a block, an action, text that is not whitespace
\* or another fill.
HasInvalidFill(src) ==
  \E i \in 1..Len(src) :
    /\ src[i] \in {"ACT", "TEXT", "FILL"}
    /\ InBareFill(ScopesAt(src, i - 1))

\* Parse has come to an end.
ParseEnded == pres \in {"nil", "error", "panic"}

\* C11: Parse returns an error for every source with a fill whose body
\* holds, outside any block, a node other than block, if or whitespace text.
C11_InvalidFillRefused ==
  (ParseEnded /\ HasInvalidFill(text)) => pres = "error"

\* The variables declared in each scope open after the chunks of a source up
\* to the i-th, innermost last: {{define}} and {{if}} open a scope, a
\* declaration adds to the innermost, {{end}} closes the innermost.
RECURSIVE DeclaredAt(_, _)
DeclaredAt(src, i) ==
  IF i = 0 THEN <<>>
  ELSE LET st == DeclaredAt(src, i - 1)
           c == src[i]
       IN IF c \in {"DEF", "DEFB", "IF"} THEN Append(st, {})
          ELSE IF c = "IFX" THEN Append(st, {"$x"})
          ELSE IF c = "DECLX" /\ st # <<>>
          THEN [st EXCEPT ![Len(st)] = @ \cup {"$x"}]
          ELSE IF c = "END" /\ st # <<>> THEN SubSeq(st, 1, Len(st) - 1)
          ELSE st

\* Whether $x was declared before the i-th chunk in a scope still open there.
InScope(src, i) ==
  LET st == DeclaredAt(src, i - 1)
  IN \E k \in 1..Len(st) : "$x" \in st[k]

\* The number of tokens of the chunks of a source before the i-th.
RECURSIVE ChunkStart(_, _)
ChunkStart(src, i) ==
  IF i <= 1 THEN 0
  ELSE ChunkStart(src, i - 1) + Len(ChunkTokens(src[i - 1]))

\* C12: Parse accepts a source only if every reference to $x in it comes
\* after a declaration of $x in the same definition, in a scope (the
\* definition, an if) that is still open at the reference; $ needs none.
C12_ReferencesInScope ==
  pres = "nil" => \A i \in 1..Len(text) : text[i] = "USEX" => InScope(text, i)

\* Parse has refused, at the reference itself, a reference to $x that comes
\* after a declaration of $x whose scope is closed.
C12_OutOfScopeRefused ==
  /\ pres = "error"
  /\ \E i \in 1..Len(text) :
       /\ text[i] = "USEX"
       /\ ~InScope(text, i)
       /\ \E j \in 1..(i - 1) : text[j] \in {"IFX", "DECLX"}
       /\ pos = ChunkStart(text, i) + 2

\* The identifier a chunk calls.
CalledBy(c) == IF c = "CALLF" THEN "f" ELSE "g"

\* Whether some function map has the identifier as a key, and whether some
\* function map holds a function under it.
IsKey(fs, id) == \E k \in 1..Len(fs) : id \in DOMAIN fs[k].fns
HoldsFunction(fs, id) ==
  \E k \in 1..Len(fs) : id \in DOMAIN fs[k].fns /\ fs[k].fns[id] = "fn"

\* Parse has refused the identifier of the i-th chunk, a call inside a
\* definition: the error was raised at the identifier itself.
RefusedAt(i) ==
  /\ pres = "error"
  /\ text[i] \in {"CALLF", "CALLG"}
  /\ ScopesAt(text, i - 1) # <<>>
  /\ pos = ChunkStart(text, i) + 2

C14_TerminalAbsorbing ==
  \A i, j \in 1..Len(returned) :
    (i < j /\ returned[i].typ \in {"Error", "EOF"}) =>
      returned[j].typ = returned[i].typ

\* next() was called three times or more after it had returned the Error
\* token of an input that had yielded other tokens first.
C14_CalledAfterError ==
  \E i \in 2..Len(returned) :
    /\ returned[i].typ = "Error"
    /\ returned[i - 1].typ # "Error"
    /\ Len(returned) >= i + 3

\* The tokens NextToken took from the channel, or made up for a closed
\* channel, in order: what it popped from the push-back stack was handed over
\* before and is left out.
RECURSIVE Scanned(_)
Scanned(d) ==
  IF d = <<>> THEN <<>>
  ELSE IF d[Len(d)].from = "stack" THEN Scanned(SubSeq(d, 1, Len(d) - 1))
  ELSE Append(Scanned(SubSeq(d, 1, Len(d) - 1)), d[Len(d)])

C15_CalledAfterLexError ==
  LET d == Scanned(delivered)
  IN \E i \in 2..Len(d) :
       /\ d[i].from = "tokens"
       /\ d[i].tok.typ = "Error"
       /\ d[i - 1].tok.typ # "Error"
       /\ Len(d) >= i + 2

Literal == Slice(lexer.input, 1, Len(lexer.input) - 1)
LiteralToken == returned[2]

\* The shapes of literals: a run of decimal digits; 0x followed by one or
\* more of 0-9 and A-F; decimal digits followed by a fraction, an exponent
\* or both.
IsDigits(w) == w # <<>> /\ \A i \in 1..Len(w) : w[i] \in sDecDigits
IsHexLiteral(w) ==
  /\ Len(w) >= 3
  /\ SubSeq(w, 1, 2) = <<"0", "x">>
  /\ \A i \in 3..Len(w) : w[i] \in sDecDigits \cup {"A", "B", "C", "D", "E", "F"}
RECURSIVE AfterDigits(_, _)
AfterDigits(w, k) ==
  IF k <= Len(w) /\ w[k] \in sDecDigits THEN AfterDigits(w, k + 1) ELSE k
IsFloatLiteral(w) ==
  LET a == AfterDigits(w, 1)
      hasFraction == a <= Len(w) /\ w[a] = "."
      b == IF hasFraction THEN AfterDigits(w, a + 1) ELSE a
      hasExponent == b <= Len(w) /\ w[b] = "e"
      c0 == IF hasExponent /\ b + 1 <= Len(w) /\ w[b + 1] \in {"+", "-"}
            THEN b + 2 ELSE b + 1
      c == IF hasExponent THEN AfterDigits(w, c0) ELSE b
  IN /\ a > 1
     /\ hasFraction \/ hasExponent
     /\ hasFraction => b > a + 1
     /\ hasExponent => c > c0
     /\ c = Len(w) + 1
\* A digit run immediately followed by a letter that starts neither the
\* hexadecimal digits nor an exponent.
IsDigitsThenLetter(w) ==
  \E k \in 1..(Len(w) - 1) :
    /\ IsDigits(SubSeq(w, 1, k))
    /\ w[k + 1] \in (sAlphaLower \cup sAlphaUpper) \ {"e"}
    /\ ~(k = 1 /\ w[1] = "0" /\ w[2] = "x")

\* C16: a hexadecimal literal lexes as an int, decimal digits with a fraction
\* and/or an exponent lex as a float, a decimal integer of more than one
\* digit that starts with 0 is an error, and so is a digit run immediately
\* followed by a letter.
C16_NumbersClassified ==
  (lexer.state # "idle" /\ Len(returned) >= 2) =>
    /\ IsHexLiteral(Literal) =>
         (LiteralToken.typ = "Int" /\ LiteralToken.val = Literal)
    /\ IsFloatLiteral(Literal) =>
         (LiteralToken.typ = "Float" /\ LiteralToken.val = Literal)
    /\ (IsDigits(Literal) /\ Len(Literal) > 1 /\ Literal[1] = "0") =>
         LiteralToken.typ = "Error"
    /\ IsDigitsThenLetter(Literal) => LiteralToken.typ = "Error"

\* The token the Scanner made of the literal of the tag.
ScannedLiteralToken == Scanned(delivered)[2].tok

\* C17: in both lexers a literal of decimal digits alone is refused exactly
\* when it has more than one digit and starts with 0; the single digit 0 is
\* an int.
C17_ZeroIsInt ==
  (lexer.state # "idle" /\ IsDigits(Literal)) =>
    /\ Len(returned) >= 2 =>
         (LiteralToken.typ = IF Len(Literal) > 1 /\ Literal[1] = "0"
                             THEN "Error" ELSE "Int")
    /\ Len(Scanned(delivered)) >= 2 =>
         (ScannedLiteralToken.typ = IF Len(Literal) > 1 /\ Literal[1] = "0"
                                    THEN "Error" ELSE "Int")

\* The opening quote of the input (at OpenQuote, counting from 1), what
\* follows it, and the place of the string among the tokens of the input.
OpenQuote == CHOOSE q \in 1..Len(lexer.input) :
               /\ lexer.input[q] = "\""
               /\ \A i \in 1..(q - 1) : lexer.input[i] # "\""
Quoted == SubSeq(lexer.input, OpenQuote + 1, Len(lexer.input))
StringAt == IF OpenQuote = 2 THEN 2 ELSE 3

\* A quote is escaped when an odd number of backslashes stands right before it.
RECURSIVE Backslashes(_, _)
Backslashes(w, k) ==
  IF k >= 1 /\ w[k] = "\\" THEN 1 + Backslashes(w, k - 1) ELSE 0
ClosingQuotes(w) ==
  {k \in 1..Len(w) : w[k] = "\"" /\ Backslashes(w, k - 1) % 2 = 0}
\* The string is closed when an unescaped quote comes with no newline before
\* it; ClosedAt is the place of that quote.
ClosedAt(w) == CHOOSE k \in ClosingQuotes(w) : \A j \in ClosingQuotes(w) : k <= j
IsClosed(w) ==
  /\ ClosingQuotes(w) # {}
  /\ \A j \in 1..ClosedAt(w) : w[j] # "\n"
StringExpected(w, t) ==
  IF IsClosed(w)
  THEN t.typ = "String" /\ t.val = <<"\"">> \o SubSeq(w, 1, ClosedAt(w))
  ELSE t.typ = "Error"

\* C18: in both lexers a string that meets the end of the input or a newline
\* before an unescaped quote gives an Error token, and any other string gives
\* a String token that runs to its first unescaped quote.
C18_UnterminatedIsError ==
  lexer.state # "idle" =>
    /\ Len(returned) >= StringAt => StringExpected(Quoted, returned[StringAt])
    /\ Len(Scanned(delivered)) >= StringAt =>
         StringExpected(Quoted, Scanned(delivered)[StringAt].tok)

\* Both lexers went past an escaped quote to the closing quote of a string
\* that something follows.
C18_EscapedQuoteInside ==
  /\ lexer.state # "idle"
  /\ IsClosed(Quoted)
  /\ \E k \in 1..(ClosedAt(Quoted) - 1) : Quoted[k] = "\""
  /\ ClosedAt(Quoted) < Len(Quoted)
  /\ Len(returned) >= StringAt
  /\ returned[StringAt].typ = "String"
  /\ Len(Scanned(delivered)) >= StringAt
  /\ Scanned(delivered)[StringAt].tok.typ = "String"

\* C19: the String() of the tree of an accepted source is accepted, and its
\* tree is the tree it was printed from.
C19_RoundTrip ==
  (parsed.done /\ ParseEnded) => (pres = "nil" /\ ptree = parsed.tree)

\* C20: after a Set.Escape that failed, the set holds no template.
C20_FailedEscapeEmptiesSet ==
  (mop = "Escape" /\ mres # "nil") => DOMAIN tree = {}

\* Set.Escape failed on a set of two templates, one of which can be escaped.
C20_EscapeFailedOnSecond ==
  /\ mop = "Escape"
  /\ mres # "nil"
  /\ DOMAIN before = {"a", "b"}
  /\ \E n \in DOMAIN before : Escapable(before[n].body)

SourceNames(src) == {src[i].name : i \in 1..Len(src)}

\* C22: after c := s.Clone(), a Parse on one set leaves the templates of the
\* other as they were and fails as a duplicate only for a name of its own
\* set or one that its source defines twice, and the templates present at
\* clone time stay in both sets.
C22_CloneHasOwnNames ==
  (cloned.state = "sets" /\ cloned.c # 0) =>
    /\ cloned.c # 1
    /\ \A n \in DOMAIN cloned.atClone :
         /\ n \in DOMAIN TreeOf(cloned, "s") /\ TreeOf(cloned, "s")[n] = cloned.atClone[n]
         /\ n \in DOMAIN TreeOf(cloned, "c") /\ TreeOf(cloned, "c")[n] = cloned.atClone[n]
    /\ (cloned.last.op = "Parse" /\ Len(cloned.last.before) = Len(cloned.heap)) =>
         LET mine == IF cloned.last.on = "s" THEN 1 ELSE cloned.c
             other == IF cloned.last.on = "s" THEN cloned.c ELSE 1
         IN /\ cloned.heap[other] = cloned.last.before[other]
            /\ cloned.last.res = "duplicated template" =>
                 \/ SourceNames(cloned.last.src) \cap DOMAIN cloned.last.before[mine] # {}
                 \/ Cardinality(SourceNames(cloned.last.src)) < Len(cloned.last.src)
            /\ cloned.last.res = "nil" =>
                 \A i \in 1..Len(cloned.last.src) :
                   cloned.heap[mine][cloned.last.src[i].name] = cloned.last.src[i]

\* A name that was absent at clone time is defined in both sets, with
\* different bodies.
C22_VariantsInBoth ==
  /\ cloned.state = "sets"
  /\ cloned.c # 0
  /\ DOMAIN cloned.atClone # {}
  /\ \E n \in DOMAIN TreeOf(cloned, "s") \cap DOMAIN TreeOf(cloned, "c") :
       /\ n \notin DOMAIN cloned.atClone
       /\ TreeOf(cloned, "s")[n].body # TreeOf(cloned, "c")[n].body
  /\ cloned.last.res = "nil"

(***************************************************************************)
(* Compile, one inlineParent at a time: what the claims speak of.          *)
(***************************************************************************)
\* The inlineParent that Compile is about to call: the template, its body,
\* the copy of its parent, the blocks of both and the body it is given.
Inlining ==
  LET nm == names[Len(names)]
      def == treeSet[nm]
  IN [name |-> nm,
      body |-> def.list,
      parent |-> treeSet[def.parent].list,
      src |-> extractBlocks(def.list).m,
      dst |-> extractBlocks(treeSet[def.parent].list).m,
      out |-> inlineParent(treeSet, nm).ts[nm].list]

AboutToInline ==
  /\ cpc = "inline"
  /\ Len(names) > 0
  /\ inlineParent(treeSet, names[Len(names)]).panic = ""

\* The set of the texts of a body.
Texts(nodes) == {Render(nodes)[i] : i \in 1..Len(Render(nodes))}

\* The content of the block the template defines under the name k.
Override(in, k) == NodeAt(in.body, in.src[k]).list

\* Whether the body r is the body p of the parent but for the content of
\* blocks of a name the template defines: such a block holds the content
\* the template gives it, or, unless every is set, what it held in p.
RECURSIVE ConformsList(_, _, _, _)
ConformsNode(rn, pn, in, every) ==
  IF pn.kind = "block"
  THEN /\ rn.kind = "block"
       /\ rn.name = pn.name
       /\ IF pn.name \in DOMAIN in.src
          THEN \/ rn.list = Override(in, pn.name)
               \/ ~every /\ ConformsList(rn.list, pn.list, in, every)
          ELSE ConformsList(rn.list, pn.list, in, every)
  ELSE IF pn.kind \in {"if", "list"}
  THEN /\ rn.kind = pn.kind
       /\ rn.hasElse = pn.hasElse
       /\ ConformsList(rn.list, pn.list, in, every)
       /\ ConformsList(rn.elseList, pn.elseList, in, every)
  ELSE rn = pn

ConformsList(r, p, in, every) ==
  /\ Len(r) = Len(p)
  /\ \A i \in 1..Len(p) : ConformsNode(r[i], p[i], in, every)

\* The names of the blocks of the template that match no block of the parent.
Unmatched(in) == DOMAIN in.src \ DOMAIN in.dst

\* Compile on a set without cycle and without missing parent returns nil.
CompileSucceeds ==
  (Returned /\ ~HasCycle(treeSet0) /\ ~HasMissing(treeSet0)) => result = "nil"

C26_NoElseNoPanic ==
  Returned => Outcome(result) # "panic"

\* C27: when the body of the parent holds several blocks of a name that the
\* template defines, inlineParent gives every one of them the content of
\* the template.
RECURSIVE AllOverridden(_, _)
AllOverridden(nodes, in) ==
  \A i \in 1..Len(nodes) :
    IF nodes[i].kind = "block" /\ nodes[i].name \in DOMAIN in.src
    THEN nodes[i].list = Override(in, nodes[i].name)
    ELSE /\ AllOverridden(nodes[i].list, in)
         /\ AllOverridden(nodes[i].elseList, in)

C27_EveryBlockOfNameOverridden ==
  AboutToInline => AllOverridden(Inlining.out, Inlining)

\* The PluralFunc of the state has been called.
PluralCalled == plural.state = "parsed" /\ plural.last.called

\* The expression of the called PluralFunc does not evaluate to an index
\* for the argument of the call.
FailsToEvaluate ==
  /\ plural.f.kind = "closure"
  /\ Eval(plural.f.tree, plural.last.n).kind \in {"error", "panic"}

\* C24: for every expression Parse accepts and every n the PluralFunc
\* returns normally, and it returns -1 whenever the expression fails to
\* evaluate for n, a division or a modulo by zero included.
C24_PluralFuncReturns ==
  PluralCalled =>
    /\ ~plural.last.out.panics
    /\ FailsToEvaluate => plural.last.out.value = -1

\* C25: Tree.AddTree is all-or-nothing.  After an AddTree call that returned
\* the duplicated-template error the tree holds exactly the definitions it
\* held before the call, whatever the order of the range over t2, and so a
\* Set.Parse that failed leaves the set as it was.
C25_AddTreeAllOrNothing ==
  (mop \in {"AddTree", "Parse"} /\ mres # "nil") => tree = before

\* C28: Parse accepts a fill whose body is made of if, with or range nodes,
\* with or without an else branch, whose branches hold only blocks and
\* whitespace text.
C28_BranchFillAccepted ==
  (text \in FillSources /\ ParseEnded) => pres = "nil"

\* The variables declared in each scope open after the chunks of a source up
\* to the i-th when a block and a fill open a scope as a definition does: a
\* declaration in the pipeline of a block or a fill belongs to its scope, a
\* declaration in a body to the innermost scope, and {{end}} closes the
\* innermost scope.
RECURSIVE BlockScopesAt(_, _)
BlockScopesAt(src, i) ==
  IF i = 0 THEN <<>>
  ELSE LET st == BlockScopesAt(src, i - 1)
           c == src[i]
       IN IF c \in {"DEF", "BLOCK", "FILL"} THEN Append(st, {})
          ELSE IF c \in {"BLOCKX", "FILLX"} THEN Append(st, {"$x"})
          ELSE IF c = "DECLX" /\ st # <<>>
          THEN [st EXCEPT ![Len(st)] = @ \cup {"$x"}]
          ELSE IF c = "END" /\ st # <<>> THEN SubSeq(st, 1, Len(st) - 1)
          ELSE st

\* C29: a variable declared in the pipeline or in the body of a block or a
\* fill is out of scope after the end of it: Parse accepts a source only if
\* every reference to $x comes after a declaration of $x in a scope, the
\* definition or a block or a fill, that is still open at the reference.
C29_BlockClosesScope ==
  pres = "nil" =>
    \A i \in 1..Len(text) :
      text[i] = "USEX" =>
        \E k \in 1..Len(BlockScopesAt(text, i - 1)) :
          "$x" \in BlockScopesAt(text, i - 1)[k]

\* The values of the Text tokens among toks, one after the other.
RECURSIVE TextValues(_)
TextValues(toks) ==
  IF toks = <<>> THEN <<>>
  ELSE (IF Head(toks).typ = "Text" THEN Head(toks).val ELSE <<>>)
         \o TextValues(Tail(toks))

\* The least index from i on at which sub lies in s; 0 when there is none.
FirstAt(s, sub, i) ==
  LET at == {j \in i..(Len(s) - Len(sub) + 1) :
               SubSeq(s, j, j + Len(sub) - 1) = sub}
  IN IF at = {} THEN 0 ELSE Least(at)

\* The input from its i-th character on with tags and comments removed, and
\* whether it is made of text, of tags {...} that hold letters and spaces
\* only, of comments /*...*/ and of comments //... that follow whitespace or
\* open the input and run to the end of their line, each of them closed.
RECURSIVE Outside(_, _)
Outside(s, i) ==
  IF i > Len(s) THEN [ok |-> TRUE, left |-> <<>>]
  ELSE IF s[i] = "{" THEN
    LET j == FirstAt(s, <<"}">>, i + 1)
    IN IF j = 0 \/ \E k \in (i + 1)..(j - 1) : s[k] \notin {"a", " "}
       THEN [ok |-> FALSE, left |-> <<>>]
       ELSE Outside(s, j + 1)
  ELSE IF s[i] = "/" /\ i < Len(s) /\ s[i + 1] = "*" THEN
    LET j == FirstAt(s, <<"*", "/">>, i + 2)
    IN IF j = 0 THEN [ok |-> FALSE, left |-> <<>>] ELSE Outside(s, j + 2)
  ELSE IF /\ s[i] = "/" /\ i < Len(s) /\ s[i + 1] = "/"
          /\ (i = 1 \/ s[i - 1] \in {" ", "\n"}) THEN
    LET j == FirstAt(s, <<"\n">>, i + 2)
    IN IF j = 0 THEN [ok |-> FALSE, left |-> <<>>] ELSE Outside(s, j + 1)
  ELSE LET r == Outside(s, i + 1)
       IN [ok |-> r.ok, left |-> <<s[i]>> \o r.left]

\* next() has returned the EOF token and no Error token.
LexedToEOF ==
  /\ \E i \in 1..Len(returned) : returned[i].typ = "EOF"
  /\ \A i \in 1..Len(returned) : returned[i].typ # "Error"

\* C30: when the queue lexer yields no Error token, the values of its Text
\* tokens, in order, are the input without its tags and comments: every
\* character outside them is in one Text token, the last one before a { and
\* the last one before the end of the input included.
C30_TextTokensAreTheText ==
  (LexedToEOF /\ Outside(lexer.input, 1).ok) =>
    TextValues(returned) = Outside(lexer.input, 1).left

\* The positions, counted from 0, of the { that open a tag in the input from
\* its i-th character on, tags and comments being told apart as in Outside.
RECURSIVE TagStarts(_, _)
TagStarts(s, i) ==
  IF i > Len(s) THEN {}
  ELSE IF s[i] = "{" THEN
    LET j == FirstAt(s, <<"}">>, i + 1)
    IN IF j = 0 THEN {i - 1} ELSE {i - 1} \cup TagStarts(s, j + 1)
  ELSE IF s[i] = "/" /\ i < Len(s) /\ s[i + 1] = "*" THEN
    LET j == FirstAt(s, <<"*", "/">>, i + 2)
    IN IF j = 0 THEN {} ELSE TagStarts(s, j + 2)
  ELSE IF /\ s[i] = "/" /\ i < Len(s) /\ s[i + 1] = "/"
          /\ (i = 1 \/ s[i - 1] \in {" ", "\n"}) THEN
    LET j == FirstAt(s, <<"\n">>, i + 2)
    IN IF j = 0 THEN {} ELSE TagStarts(s, j + 1)
  ELSE TagStarts(s, i + 1)

\* The positions of the tokens of type typ among toks.
PositionsOf(toks, typ) ==
  {toks[i].pos : i \in {k \in 1..Len(toks) : toks[k].typ = typ}}

\* C31: every { outside tags and comments yields a LeftBrace token at its
\* position, whatever precedes it, a / that opens no comment included.
C31_EveryBraceOpensTag ==
  (LexedToEOF /\ Outside(lexer.input, 1).ok) =>
    PositionsOf(returned, "LeftBrace") = TagStarts(lexer.input, 1)

\* The Comment tokens next() has returned whose value opens with /*.
BlockComments ==
  {k \in 1..Len(returned) :
     /\ returned[k].typ = "Comment"
     /\ HasPrefix(returned[k].val, <<"/", "*">>)}

\* C32: acceptUntilPrefix consumes the input up to the first occurrence of the
\* prefix and the prefix itself: the Comment token of a block comment that is
\* closed runs from its /* through its */.
C32_BlockCommentHoldsItsEnd ==
  \A k \in BlockComments :
    LET at == returned[k].pos
        j == FirstAt(lexer.input, <<"*", "/">>, at + 3)
    IN j # 0 => returned[k].val = SubSeq(lexer.input, at + 1, j + 1)

\* The positions, counted from 0, at which // opens a single-line comment:
\* outside tags and block comments, at the start of the input or right after
\* a whitespace character.  The scan covers inputs without { and without *,
\* in which nothing but a single-line comment can hide a //.
RECURSIVE LineComments(_, _)
LineComments(s, i) ==
  IF i >= Len(s) THEN {}
  ELSE IF /\ s[i] = "/" /\ s[i + 1] = "/"
          /\ (i = 1 \/ s[i - 1] \in {" ", "\n"}) THEN
    LET j == FirstAt(s, <<"\n">>, i + 2)
    IN IF j = 0 THEN {i - 1} ELSE {i - 1} \cup LineComments(s, j + 1)
  ELSE LineComments(s, i + 1)

\* The end of the line of the comment that opens at the position at: the
\* index of its newline, or the length of the input when none follows.
LineEnd(s, at) ==
  IF FirstAt(s, <<"\n">>, at + 3) = 0 THEN Len(s)
  ELSE FirstAt(s, <<"\n">>, at + 3)

NoBraceNoStar(s) == \A i \in 1..Len(s) : s[i] \notin {"{", "}", "*"}

\* C33: outside tags // opens a single-line comment exactly when it follows
\* whitespace or opens the input; the Comment token then runs to the end of
\* the line, or of the input when no newline follows, and nothing of it is
\* Text.
C33_LineCommentAfterSpace ==
  (LexedToEOF /\ NoBraceNoStar(lexer.input)) =>
    /\ PositionsOf(returned, "Comment") = LineComments(lexer.input, 1)
    /\ \A k \in 1..Len(returned) :
         returned[k].typ = "Comment" =>
           returned[k].val =
             SubSeq(lexer.input, returned[k].pos + 1,
                    LineEnd(lexer.input, returned[k].pos))

\* The position (1-based) of the first character of s that is not plain text,
\* 0 when there is none.
FirstSpecial(s) ==
  LET at == {i \in 1..Len(s) : s[i] \notin {"a", " ", "\n"}}
  IN IF at = {} THEN 0 ELSE Least(at)

\* s is plain text followed by a /* that no */ closes.
UnclosedBlockComment(s) ==
  LET i == FirstSpecial(s)
  IN /\ i # 0
     /\ HasPrefix(SubSeq(s, i, Len(s)), <<"/", "*">>)
     /\ FirstAt(s, <<"*", "/">>, i + 2) = 0

\* s is plain text followed by a comment tag {/* that no */} closes.
UnclosedCommentTag(s) ==
  LET i == FirstSpecial(s)
  IN /\ i # 0
     /\ HasPrefix(SubSeq(s, i, Len(s)), <<"{", "/", "*">>)
     /\ FirstAt(s, <<"*", "/", "}">>, i + 3) = 0

\* C34: an unterminated comment is a lex error: for an input whose /* or
\* whose comment tag {/* is never closed, the queue lexer does not reach EOF
\* without an Error token.
C34_UnterminatedCommentIsError ==
  LexedToEOF =>
    ~(UnclosedBlockComment(lexer.input) \/ UnclosedCommentTag(lexer.input))

\* Lexing inputs made of at most MaxPieces pieces: braces, text, and the
\* opening and the closing of a comment tag.
MaxPieces == 3
TagPieces ==
  {<<"{">>, <<"}">>, <<"a">>, <<" ">>, <<"{", "/", "*">>, <<"*", "/", "}">>}
RECURSIVE PieceInputs(_)
PieceInputs(k) ==
  IF k = 0 THEN {<<>>}
  ELSE PieceInputs(k - 1) \cup {in \o p : in \in PieceInputs(k - 1), p \in TagPieces}

InitTags ==
  /\ OtherIdle
  /\ ScanIdle
  /\ \E in \in PieceInputs(MaxPieces) : lexer = newLexer(in)
  /\ returned = <<>>

SpecTags == InitTags /\ [][NextLex]_vars

\* The LeftBrace and RightBrace tokens among toks, in order.
Braces(toks) == SelectSeq(toks, LAMBDA t : t.typ \in {"LeftBrace", "RightBrace"})

\* The braces of toks alternate from a LeftBrace on and end with a RightBrace.
BracesPaired(toks) ==
  LET b == Braces(toks)
  IN /\ \A i \in 1..Len(b) :
          b[i].typ = (IF i % 2 = 1 THEN "LeftBrace" ELSE "RightBrace")
     /\ Len(b) % 2 = 0

\* C35: when the queue lexer yields no Error token, its LeftBrace and
\* RightBrace tokens alternate, the first one is a LeftBrace, and each
\* LeftBrace has its RightBrace before EOF, comment tags included.
C35_BracesAlternate == LexedToEOF => BracesPaired(returned)

\* 0x with no hexadecimal digit after it.
IsBareHexPrefix(w) ==
  /\ HasPrefix(w, <<"0", "x">>)
  /\ (Len(w) = 2 \/ w[3] \notin sDecDigits \cup {"A", "B", "C", "D", "E", "F"})

\* C36: the Scanner makes an int of 0x1A2B, floats of 0.5, 3e-3 and 6.02e23,
\* and errors of 0123, of 123abc and of 0x with no hexadecimal digit.
C36_ScannerNumberExamples ==
  (scanner.state # "idle" /\ Len(Scanned(delivered)) >= 2) =>
    /\ Literal = <<"0", "x", "1", "A", "2", "B">> => ScannedLiteralToken.typ = "Int"
    /\ Literal \in {<<"0", ".", "5">>, <<"3", "e", "-", "3">>,
                    <<"6", ".", "0", "2", "e", "2", "3">>} =>
         ScannedLiteralToken.typ = "Float"
    /\ Literal \in {<<"0", "1", "2", "3">>, <<"1", "2", "3", "a", "b", "c">>} =>
         ScannedLiteralToken.typ = "Error"
    /\ IsBareHexPrefix(Literal) => ScannedLiteralToken.typ = "Error"

\* The Scanner with its goroutine scheduled whenever it can run: the state
\* loop and the close of newScanner are taken when they stay enabled. The
\* consumer is under no obligation to call NextToken or PushToken.
SpecScanLive ==
  InitScan /\ [][NextScan]_vars /\ WF_vars(ScannerRun) /\ WF_vars(ScannerClose)

\* C37: the goroutine of newScanner terminates for every source and every
\* consumer, one that stops calling NextToken included: it is never held by
\* a send for ever, and in the end it closes the tokens channel.
C37_GoroutineTerminates == <>(scanner.closed)

\* The Scanner with a stack of at most MaxStack pushed-back tokens, on the
\* sources of at most MaxStackSource of the characters of StackAlphabet.
MaxStack == 2
MaxStackSource == 2
StackAlphabet == {"{", "}", "a"}
StackSources == UNION {[1..k -> StackAlphabet] : k \in 0..MaxStackSource}

InitStack ==
  /\ OtherIdle
  /\ QueueIdle
  /\ \E source \in StackSources : scanner = newScanner(source)
  /\ delivered = <<>>

\* Scanner.PushToken, of a token NextToken has returned, onto a stack that
\* may hold a token already.
PushTokenStack ==
  /\ scanner.state # "idle"
  /\ Len(scanner.stack) < MaxStack
  /\ Cardinality({i \in 1..Len(delivered) : delivered[i].from = "stack"}) < MaxStack
  /\ \E i \in 1..Len(delivered) :
       scanner' = [scanner EXCEPT !.stack = Append(@, delivered[i].tok)]
  /\ UNCHANGED <<compileVars, mergeVars, parseVars, queueVars, delivered, moreVars>>

NextStack == ScannerRun \/ ScannerClose \/ NextToken \/ PushTokenStack

SpecStack == InitStack /\ [][NextStack]_vars

\* Every token the goroutine of a Scanner emits, in the order of emission.
RECURSIVE ScanAll(_)
ScanAll(s) == IF s.state = "nil" THEN s.sending ELSE ScanAll(Scanner_state(s))

\* The tokens NextToken took from the channel, in the order it returned them.
FromChannel(d) ==
  LET t == SelectSeq(d, LAMBDA e : e.from = "tokens")
  IN [i \in 1..Len(t) |-> t[i].tok]

\* C38: NextToken returns the token pushed back last while the stack holds
\* one, and takes it off the stack; otherwise it returns no pushed-back
\* token, and the tokens it takes from the channel are the tokens of the
\* goroutine in the order of emission, each one once.
C38_NextTokenOrder ==
  [][delivered' # delivered =>
       LET d == delivered'[Len(delivered')]
           size == Len(scanner.stack)
       IN /\ size > 0 => /\ d.from = "stack"
                         /\ d.tok = scanner.stack[size]
                         /\ scanner'.stack = SubSeq(scanner.stack, 1, size - 1)
          /\ size = 0 => d.from # "stack"
          /\ LET got == FromChannel(delivered')
                 all == ScanAll(newScanner(scanner.src))
             IN Len(got) <= Len(all) /\ got = SubSeq(all, 1, Len(got))]_vars

\* The stack held two different tokens and NextToken has returned both, and
\* then a further token of the channel.
C38_TwoPushedBackThenNew ==
  \E i \in 1..(Len(delivered) - 2) :
    /\ delivered[i].from = "stack"
    /\ delivered[i + 1].from = "stack"
    /\ delivered[i].tok # delivered[i + 1].tok
    /\ delivered[i + 2].from = "tokens"
    /\ Len(FromChannel(delivered)) >= 3

\* The closing brackets, and the opening bracket of each.
ClosingBrackets == {"RParen", "RBrace", "RBracket"}
OpenerOf(typ) ==
  CASE typ = "RParen" -> "LParen"
    [] typ = "RBrace" -> "LBrace"
    [] typ = "RBracket" -> "LBracket"

\* The opening brackets of toks that no closing bracket has closed yet, the
\* oldest first; a closing bracket closes the last one.
RECURSIVE OpenBrackets(_)
OpenBrackets(toks) ==
  IF toks = <<>> THEN <<>>
  ELSE LET open == OpenBrackets(SubSeq(toks, 1, Len(toks) - 1))
           typ == toks[Len(toks)].typ
       IN IF typ \in {"LParen", "LBrace", "LBracket"} THEN Append(open, typ)
          ELSE IF typ \in ClosingBrackets /\ open # <<>>
          THEN SubSeq(open, 1, Len(open) - 1)
          ELSE open

\* C39: among the tokens of the Scanner, a right delimiter comes only when
\* no bracket is open, every closing bracket closes the bracket opened last,
\* which is of its kind, and no EOF comes while a bracket is open: a closing
\* bracket that matches nothing, and a tag that ends with a bracket open,
\* give an Error token instead.
C39_BracketsBalanced ==
  LET toks == FromChannel(delivered)
  IN \A k \in 1..Len(toks) :
       LET open == OpenBrackets(SubSeq(toks, 1, k - 1))
       IN /\ toks[k].typ \in {"RDelim", "EOF"} => open = <<>>
          /\ toks[k].typ \in ClosingBrackets =>
               (open # <<>> /\ open[Len(open)] = OpenerOf(toks[k].typ))

\* A tag with a brace opened and closed inside it was scanned to its right
\* delimiter.
C39_BraceInsideTag ==
  LET toks == FromChannel(delivered)
  IN \E k \in 1..(Len(toks) - 3) :
       /\ toks[k].typ = "LDelim"
       /\ toks[k + 1].typ = "LBrace"
       /\ toks[k + 2].typ = "RBrace"
       /\ toks[k + 3].typ = "RDelim"

(***************************************************************************)
(* The token queue of the lexer (lexer.go): a ring of tokens that doubles  *)
(* when it is full.  The slice q.tokens is a function on 0..len-1.         *)
(***************************************************************************)

\* make([]token, 10)
queueSize == 10

\* The zero value of a slot, and the k-th token pushed.
zeroToken == [pos |-> 0]
tokenNo(k) == [pos |-> k]

newQueue ==
  [tokens |-> [i \in 0..(queueSize - 1) |-> zeroToken],
   head |-> 0, tail |-> 0, count |-> 0]

\* len(q.tokens)
queue_len(q) == Cardinality(DOMAIN q.tokens)

\* A resize that copies the slots as they lie.
queue_resizeFlat(q) ==
  [q EXCEPT !.tokens = [i \in 0..(2 * queue_len(q) - 1) |->
                          IF i < queue_len(q) THEN q.tokens[i] ELSE zeroToken],
            !.head = 0,
            !.tail = queue_len(q)]

\* The resize of queue.push: the tokens from head on, then those before it.
queue_resize(q) ==
  [q EXCEPT !.tokens = [i \in 0..(2 * queue_len(q) - 1) |->
                          IF i < queue_len(q) - q.head THEN q.tokens[q.head + i]
                          ELSE IF i < queue_len(q)
                          THEN q.tokens[i - (queue_len(q) - q.head)]
                          ELSE zeroToken],
            !.head = 0,
            !.tail = queue_len(q)]

queue_put(q, t) ==
  [q EXCEPT !.tokens[q.tail] = t,
            !.tail = (q.tail + 1) % queue_len(q),
            !.count = @ + 1]

queue_push(q, t) ==
  IF q.head = q.tail /\ q.count > 0 THEN queue_put(queue_resize(q), t)
  ELSE queue_put(q, t)

\* queue.pop: the token, the queue after it, and whether it panics.
queue_pop(q) ==
  IF q.count > 0
  THEN [token |-> q.tokens[q.head],
        q |-> [q EXCEPT !.head = (q.head + 1) % queue_len(q), !.count = @ - 1],
        panics |-> FALSE]
  ELSE [token |-> zeroToken, q |-> q, panics |-> TRUE]

\* At most MaxPushes tokens are pushed.
MaxPushes == 24

InitQueue ==
  /\ MergeIdle
  /\ ParseIdle
  /\ QueueIdle
  /\ ScanIdle
  /\ EscaperIdle
  /\ CloneIdle
  /\ PluralIdle
  /\ treeSet = <<>>
  /\ treeSet0 = <<>>
  /\ cpc = "idle"
  /\ todo1 = {}
  /\ todo2 = {}
  /\ name = ""
  /\ deps = <<>>
  /\ names = <<>>
  /\ result = ""
  /\ steps = 0
  /\ queue = newQueue
  /\ qhist = [state |-> "active", pushed |-> 0, popped |-> <<>>, panicked |-> FALSE]

\* l.queue.push(token{...}), of lexer.emit and lexer.emitValue
QueuePush ==
  /\ qhist.state = "active"
  /\ qhist.pushed < MaxPushes
  /\ queue' = queue_push(queue, tokenNo(qhist.pushed + 1))
  /\ qhist' = [qhist EXCEPT !.pushed = @ + 1]
  /\ UNCHANGED <<compileVars, mergeVars, parseVars, queueVars, scanVars,
                 escaper, cloned, plural>>

\* if l.queue.count > 0 { return l.queue.pop() }, of lexer.next
QueuePop ==
  /\ qhist.state = "active"
  /\ queue.count > 0
  /\ queue' = queue_pop(queue).q
  /\ qhist' = [qhist EXCEPT !.popped = Append(@, queue_pop(queue).token),
                            !.panicked = @ \/ queue_pop(queue).panics]
  /\ UNCHANGED <<compileVars, mergeVars, parseVars, queueVars, scanVars,
                 escaper, cloned, plural>>

NextQueue == QueuePush \/ QueuePop

SpecQueue == InitQueue /\ [][NextQueue]_vars

\* C40: the tokens come out of the queue in the order they went in, across
\* the wrap of the ring and across its resizes; count is the number of
\* pushes minus the number of pops; and lexer.next never pops an empty queue.
C40_QueueIsFIFO ==
  qhist.state = "active" =>
    /\ qhist.popped = [i \in 1..Len(qhist.popped) |-> tokenNo(i)]
    /\ queue.count = qhist.pushed - Len(qhist.popped)
    /\ ~qhist.panicked

\* The ring was resized once, with three tokens popped before the resize,
\* so that its tokens lay across the wrap, and two tokens popped after it.
C40_PoppedAcrossResize ==
  /\ qhist.state = "active"
  /\ queue_len(queue) = 2 * queueSize
  /\ queue.head = 2
  /\ Len(qhist.popped) = 5

====
